---- MODULE Spec2Model ----
(***************************************************************************)
(* x402-guard: a policy enforcement layer for x402 payments.               *)
(*                                                                         *)
(*   src/policy/policy.ts        unit conversion, amount parsing           *)
(*   src/policy/requirements.ts  evaluatePaymentRequirements               *)
(*   src/policy/budget.ts        RollingBudget                             *)
(*   src/policy/conditions.ts    enforceResponseConditions                 *)
(*   src/guard.ts                X402Guard                                 *)
(*                                                                         *)
(* Five specifications share the variables below:                          *)
(*   SpecBudget     a RollingBudget driven with caller-supplied times       *)
(*   SpecEval       evaluatePaymentRequirements applied to bounded inputs   *)
(*   SpecGate       enforceResponseConditions applied to bounded inputs     *)
(*   SpecConstruct  the constructor of X402Guard given any policy           *)
(*   Spec           one X402Guard instance serving guarded calls one at a   *)
(*                  time                                                    *)
(***************************************************************************)
EXTENDS Integers, Sequences, FiniteSets, TLC

\* ------------------------------------------------------------------------
\* Bounds
\* ------------------------------------------------------------------------
MaxTime == 3        \* SpecBudget: caller-supplied times are 0..MaxTime
MaxRecords == 2     \* SpecBudget: number of record() calls
MaxReqs == 2        \* SpecEval: length of the requirement list
MaxAccepts == 2     \* Spec: length of a server-advertised accepts list
MaxClock == 2       \* Spec, SpecGate: Date.now() ranges over 0..MaxClock
MaxCalls == 2       \* Spec, SpecConstruct: number of guarded calls started
MantissaBits == 14  \* significant bits of a JavaScript number (a double has
                    \* 53); 14 is the least that holds 1_000_000 exactly

\* ------------------------------------------------------------------------
\* Generic helpers
\* ------------------------------------------------------------------------
RECURSIVE SumAmounts(_)
\* events.reduce((acc, e) => acc + e.amountBaseUnits, 0n)
SumAmounts(evs) ==
  IF evs = <<>> THEN 0
  ELSE Head(evs).amountBaseUnits + SumAmounts(Tail(evs))

\* ------------------------------------------------------------------------
\* src/policy/budget.ts : RollingBudget
\* The object is the record [present, windowMs, limitBaseUnits, events];
\* each method is an operator returning the new event list and the result.
\* ------------------------------------------------------------------------
NewRollingBudget(windowMs, limitBaseUnits) ==
  [present |-> TRUE, windowMs |-> windowMs,
   limitBaseUnits |-> limitBaseUnits, events |-> <<>>]

NoRollingBudget ==
  [present |-> FALSE, windowMs |-> 0, limitBaseUnits |-> 0, events |-> <<>>]

SpendEvent(ts, amountBaseUnits) ==
  [ts |-> ts, amountBaseUnits |-> amountBaseUnits]

prune_dropInclusive(b, now) ==
  LET cutoff == now - b.windowMs
  IN  SelectSeq(b.events, LAMBDA e : e.ts > cutoff)

prune(b, now) ==
  LET cutoff == now - b.windowMs
  IN  SelectSeq(b.events, LAMBDA e : e.ts >= cutoff)

getTotal_doubleEvict(b, now) ==
  LET kept == prune(b, now)
  IN  [events |-> IF kept = <<>> THEN kept ELSE Tail(kept),
       total |-> SumAmounts(kept)]

getTotal(b, now) ==
  LET kept == prune(b, now)
  IN  [events |-> kept, total |-> SumAmounts(kept)]

canSpend_ignoresTotal(b, amountBaseUnits, now) ==
  LET g == getTotal(b, now)
  IN  IF amountBaseUnits > b.limitBaseUnits
      THEN [events |-> g.events, ok |-> FALSE, total |-> g.total]
      ELSE [events |-> g.events, ok |-> TRUE, total |-> 0]

canSpend_strict(b, amountBaseUnits, now) ==
  LET g == getTotal(b, now)
  IN  IF g.total + amountBaseUnits >= b.limitBaseUnits
      THEN [events |-> g.events, ok |-> FALSE, total |-> g.total]
      ELSE [events |-> g.events, ok |-> TRUE, total |-> 0]

canSpend(b, amountBaseUnits, now) ==
  LET g == getTotal(b, now)
  IN  IF g.total + amountBaseUnits > b.limitBaseUnits
      THEN [events |-> g.events, ok |-> FALSE, total |-> g.total]
      ELSE [events |-> g.events, ok |-> TRUE, total |-> 0]

record_dropsEvent(b, amountBaseUnits, now) ==
  prune(b, now)

record_noPrune(b, amountBaseUnits, now) ==
  Append(b.events, SpendEvent(now, amountBaseUnits))

record(b, amountBaseUnits, now) ==
  Append(prune(b, now), SpendEvent(now, amountBaseUnits))

\* ------------------------------------------------------------------------
\* JavaScript values
\* An optional value (undefined / null) is the empty tuple, a present one a
\* 1-tuple.  A string is the tuple of its characters.
\* ------------------------------------------------------------------------
Undefined == <<>>
Def(x) == <<x>>
IsDef(o) == o # <<>>
Val(o) == o[1]

DigitChars == <<"0", "1", "2", "3", "4", "5", "6", "7", "8", "9">>
IsDigit(c) == \E i \in 1..Len(DigitChars) : DigitChars[i] = c
DigitVal(c) == (CHOOSE i \in 1..Len(DigitChars) : DigitChars[i] = c) - 1

RECURSIVE TrimStart(_)
TrimStart(s) ==
  IF s # <<>> /\ Head(s) = " " THEN TrimStart(Tail(s)) ELSE s

RECURSIVE TrimEnd(_)
TrimEnd(s) ==
  IF s # <<>> /\ s[Len(s)] = " " THEN TrimEnd(SubSeq(s, 1, Len(s) - 1)) ELSE s

AllDigits(s) == \A i \in 1..Len(s) : IsDigit(s[i])

RECURSIVE DecimalValue(_, _)
DecimalValue(s, acc) ==
  IF s = <<>> THEN acc
  ELSE DecimalValue(Tail(s), acc * 10 + DigitVal(Head(s)))

\* BigInt(string): StringToBigInt of ECMAScript.  White space is trimmed, the
\* empty string is 0n, a decimal literal may carry one sign; anything else is
\* a SyntaxError (Undefined here).  Radix prefixes are outside the alphabet.
StringToBigInt(s) ==
  LET t == TrimEnd(TrimStart(s))
  IN  IF t = <<>> THEN Def(0)
      ELSE IF Head(t) \in {"+", "-"}
        THEN IF Tail(t) # <<>> /\ AllDigits(Tail(t))
             THEN Def((IF Head(t) = "-" THEN -1 ELSE 1) * DecimalValue(Tail(t), 0))
             ELSE Undefined
        ELSE IF AllDigits(t) THEN Def(DecimalValue(t, 0)) ELSE Undefined

RECURSIVE NatToString(_)
NatToString(n) ==
  IF n < 10 THEN <<DigitChars[n + 1]>>
  ELSE Append(NatToString(n \div 10), DigitChars[(n % 10) + 1])

\* bigint.toString()
BigIntToString(n) ==
  IF n < 0 THEN <<"-">> \o NatToString(-n) ELSE NatToString(n)

\* A value of the `amount` field: a string or something that is not a string.
StrValue(chars) == [type |-> "string", chars |-> chars]
NotAString == [type |-> "undefined", chars |-> <<>>]

\* ------------------------------------------------------------------------
\* src/policy/policy.ts
\* ------------------------------------------------------------------------
UsdcScale == 1000000

\* A JavaScript number holding a USD value: the binary fraction num / den,
\* den a power of two and |num| < 2^MantissaBits, as every finite
\* floating-point number is.
Usd(num, den) == [num |-> num, den |-> den]

RECURSIVE Pow2(_)
Pow2(n) == IF n = 0 THEN 1 ELSE 2 * Pow2(n - 1)

\* the number of bits of the natural number n
RECURSIVE BitLength(_)
BitLength(n) == IF n = 0 THEN 0 ELSE 1 + BitLength(n \div 2)

\* n = OddPart(n) * EvenPart(n), EvenPart(n) a power of two
RECURSIVE OddPart(_)
OddPart(n) == IF n % 2 = 0 THEN OddPart(n \div 2) ELSE n

EvenPart(n) == n \div OddPart(n)

Abs(n) == IF n < 0 THEN -n ELSE n

\* the natural number m rounded to MantissaBits significant bits, to nearest,
\* ties to even: the rounding of every floating-point operation
RoundToMantissa(m) ==
  LET len == BitLength(m)
  IN  IF len <= MantissaBits THEN m
      ELSE LET unit == Pow2(len - MantissaBits)
               q == m \div unit
               r == m % unit
               up == r * 2 > unit \/ (r * 2 = unit /\ q % 2 = 1)
           IN  (IF up THEN q + 1 ELSE q) * unit

\* usd * 1_000_000 in floating point, as a fraction: the exact product
\* num * OddPart(10^6) * EvenPart(10^6) / den, its mantissa rounded
FloatTimes(usd, scale) ==
  LET mantissa == RoundToMantissa(Abs(usd.num) * OddPart(scale))
      signed == IF usd.num < 0 THEN -mantissa ELSE mantissa
  IN  IF usd.den >= EvenPart(scale)
      THEN [num |-> signed, den |-> usd.den \div EvenPart(scale)]
      ELSE [num |-> signed * (EvenPart(scale) \div usd.den), den |-> 1]

\* BigInt(Math.floor(usd * 1_000_000))
usdToUsdcBaseUnits(usd) ==
  LET scaled == FloatTimes(usd, UsdcScale)
  IN  scaled.num \div scaled.den

\* typeof req.amount !== "string" -> null; BigInt(req.amount), null if it throws
parseUsdcAmountBaseUnits(req) ==
  IF req.amount.type # "string" THEN Undefined
  ELSE StringToBigInt(req.amount.chars)

\* GuardPolicy.  maxPerPaymentUsd, budget and conditions are optional.
GuardPolicy(maxPerPaymentUsd, budget, conditions, selectCheapest) ==
  [maxPerPaymentUsd |-> maxPerPaymentUsd, budget |-> budget,
   conditions |-> conditions, selectCheapest |-> selectCheapest]

BudgetWindowPolicy(limitUsd, windowMs) ==
  [limitUsd |-> limitUsd, windowMs |-> windowMs]

\* usd > 0, for a number given as the fraction num / den (den > 0)
IsPositive(usd) == usd.num > 0

validatePolicy_stopsAfterCap(p, fieldsAreArray) ==
  IF IsDef(p.maxPerPaymentUsd)
  THEN IF ~IsPositive(Val(p.maxPerPaymentUsd))
       THEN Def("policy.maxPerPaymentUsd must be > 0")
       ELSE Undefined
  ELSE IF IsDef(p.budget) /\ ~IsPositive(Val(p.budget).limitUsd)
  THEN Def("policy.budget.limitUsd must be > 0")
  ELSE IF IsDef(p.budget) /\ ~(Val(p.budget).windowMs > 0)
  THEN Def("policy.budget.windowMs must be > 0")
  ELSE IF IsDef(p.conditions) /\ IsDef(Val(p.conditions).maxLatencyMs)
          /\ ~(Val(Val(p.conditions).maxLatencyMs) > 0)
  THEN Def("policy.conditions.maxLatencyMs must be > 0")
  ELSE IF IsDef(p.conditions) /\ IsDef(Val(p.conditions).requiredJsonFields)
          /\ ~fieldsAreArray
  THEN Def("policy.conditions.requiredJsonFields must be an array of strings")
  ELSE Undefined

validatePolicy_acceptsZeroLimit(p, fieldsAreArray) ==
  IF IsDef(p.maxPerPaymentUsd) /\ ~IsPositive(Val(p.maxPerPaymentUsd))
  THEN Def("policy.maxPerPaymentUsd must be > 0")
  ELSE IF IsDef(p.budget) /\ ~(Val(p.budget).windowMs > 0)
  THEN Def("policy.budget.windowMs must be > 0")
  ELSE IF IsDef(p.conditions) /\ IsDef(Val(p.conditions).maxLatencyMs)
          /\ ~(Val(Val(p.conditions).maxLatencyMs) > 0)
  THEN Def("policy.conditions.maxLatencyMs must be > 0")
  ELSE IF IsDef(p.conditions) /\ IsDef(Val(p.conditions).requiredJsonFields)
          /\ ~fieldsAreArray
  THEN Def("policy.conditions.requiredJsonFields must be an array of strings")
  ELSE Undefined

\* validatePolicy(policy): the message of the Error it throws, Undefined when
\* it returns; fieldsAreArray is Array.isArray(policy.conditions
\* .requiredJsonFields), which the static type promises and a caller may break
validatePolicy(p, fieldsAreArray) ==
  IF IsDef(p.maxPerPaymentUsd) /\ ~IsPositive(Val(p.maxPerPaymentUsd))
  THEN Def("policy.maxPerPaymentUsd must be > 0")
  ELSE IF IsDef(p.budget) /\ ~IsPositive(Val(p.budget).limitUsd)
  THEN Def("policy.budget.limitUsd must be > 0")
  ELSE IF IsDef(p.budget) /\ ~(Val(p.budget).windowMs > 0)
  THEN Def("policy.budget.windowMs must be > 0")
  ELSE IF IsDef(p.conditions) /\ IsDef(Val(p.conditions).maxLatencyMs)
          /\ ~(Val(Val(p.conditions).maxLatencyMs) > 0)
  THEN Def("policy.conditions.maxLatencyMs must be > 0")
  ELSE IF IsDef(p.conditions) /\ IsDef(Val(p.conditions).requiredJsonFields)
          /\ ~fieldsAreArray
  THEN Def("policy.conditions.requiredJsonFields must be an array of strings")
  ELSE Undefined

\* ------------------------------------------------------------------------
\* src/policy/requirements.ts
\* ------------------------------------------------------------------------
PaymentRequirements(amount, payTo) ==
  [scheme |-> "exact", network |-> "eip155:84532", asset |-> "USDC",
   amount |-> amount, payTo |-> payTo, maxTimeoutSeconds |-> 60]

\* { scheme, network, amount, asset, payTo } of a requirement
RequirementSnapshot(r) ==
  [scheme |-> r.scheme, network |-> r.network, amount |-> r.amount,
   asset |-> r.asset, payTo |-> r.payTo]

RequirementRejection(r) ==
  [requirement |-> RequirementSnapshot(r), reason |-> "ABOVE_PER_PAYMENT_CAP"]

\* the key the comparator of the cheapest-first sort compares
SortKey(r) ==
  LET v == parseUsdcAmountBaseUnits(r) IN IF IsDef(v) THEN Val(v) ELSE 0

RECURSIVE InsertSorted(_, _)
\* place r behind every element that does not compare greater than it
InsertSorted_beforeEquals(sorted, r) ==
  LET before == SelectSeq(sorted, LAMBDA x : SortKey(x) < SortKey(r))
      after == SelectSeq(sorted, LAMBDA x : SortKey(x) >= SortKey(r))
  IN  before \o <<r>> \o after

InsertSorted(sorted, r) ==
  IF sorted = <<>> THEN <<r>>
  ELSE IF SortKey(Head(sorted)) > SortKey(r) THEN <<r>> \o sorted
  ELSE <<Head(sorted)>> \o InsertSorted(Tail(sorted), r)

RECURSIVE StableSortFrom(_, _)
StableSortFrom(sorted, todo) ==
  IF todo = <<>> THEN sorted
  ELSE StableSortFrom(InsertSorted(sorted, Head(todo)), Tail(todo))

\* [...acceptable].sort(comparator): Array.prototype.sort is stable
SortCheapestFirst(reqs) == StableSortFrom(<<>>, reqs)

CapFilterKeeps_acceptUnparseable(cap, r) ==
  LET amount == parseUsdcAmountBaseUnits(r)
  IN  IF ~IsDef(amount) THEN TRUE ELSE Val(amount) <= cap

\* the filter callback's return value
CapFilterKeeps(cap, r) ==
  LET amount == parseUsdcAmountBaseUnits(r)
  IN  IF ~IsDef(amount) THEN FALSE ELSE Val(amount) <= cap

\* the filter callback's push to `rejected`
CapFilterRejects(cap, r) ==
  LET amount == parseUsdcAmountBaseUnits(r)
  IN  IsDef(amount) /\ ~(Val(amount) <= cap)

RECURSIVE RejectionsOf(_, _)
RejectionsOf(cap, reqs) ==
  IF reqs = <<>> THEN <<>>
  ELSE (IF CapFilterRejects(cap, Head(reqs))
        THEN <<RequirementRejection(Head(reqs))>> ELSE <<>>)
       \o RejectionsOf(cap, Tail(reqs))

SortedCopy_inPlace(arr) ==
  [sorted |-> SortCheapestFirst(arr), arr |-> SortCheapestFirst(arr)]

\* [...arr].sort(comparator): the sorted copy, and arr as the sort leaves it
SortedCopy(arr) == [sorted |-> SortCheapestFirst(arr), arr |-> arr]

\* the result, and the array passed as reqs as the call leaves it (without a
\* cap `acceptable` starts as that very array)
evaluatePaymentRequirements(pol, reqs) ==
  LET capped == IsDef(pol.maxPerPaymentUsd)
      cap == IF capped THEN usdToUsdcBaseUnits(Val(pol.maxPerPaymentUsd)) ELSE 0
      filtered == IF capped
                  THEN SelectSeq(reqs, LAMBDA r : CapFilterKeeps(cap, r))
                  ELSE reqs
      rejected == IF capped THEN RejectionsOf(cap, reqs) ELSE <<>>
      sort == SortedCopy(filtered)
  IN  [acceptable |-> IF pol.selectCheapest THEN sort.sorted ELSE filtered,
       rejected |-> rejected,
       reqs |-> IF pol.selectCheapest /\ ~capped THEN sort.arr ELSE reqs]

\* ------------------------------------------------------------------------
\* State
\* ------------------------------------------------------------------------
VARIABLES
  policy,            \* X402Guard.policy / the policy argument of the evaluator
  budget,            \* the RollingBudget object (X402Guard.budget)
  recorded,          \* history: every spend event ever passed to record()
  ret,               \* SpecBudget: the last RollingBudget call and its result
  monotone,          \* SpecBudget: the times supplied so far never decreased
  evalReqs,          \* SpecEval: the reqs argument
  evalOut,           \* SpecEval: the value evaluatePaymentRequirements returned
  clock,             \* Date.now()
  lastSelected,      \* X402Guard.lastSelected
  lastRejected,      \* X402Guard.lastRejected
  lastBudgetBefore,  \* X402Guard.lastBudgetBefore
  lastBudgetAfter,   \* X402Guard.lastBudgetAfter
  calls,             \* the guarded calls: locals of fetch and of the negotiation
  started,           \* number of fetch invocations so far
  config,            \* SpecConstruct: the config passed to new X402Guard
  hooks,             \* SpecConstruct: what is registered on config.client
  construction,      \* SpecConstruct: "new", "constructed" or "failed"
  ctorThrown,        \* SpecConstruct: the error the constructor threw
  gateIn,            \* SpecGate: the arguments of enforceResponseConditions
  gateOut            \* SpecGate: what enforceResponseConditions did

ledgerVars == <<recorded, ret, monotone>>
evalVars == <<evalReqs, evalOut>>
scratchVars == <<lastSelected, lastRejected, lastBudgetBefore, lastBudgetAfter>>
guardVars == <<clock, lastSelected, lastRejected, lastBudgetBefore,
               lastBudgetAfter, calls, started>>
ctorVars == <<config, hooks, construction, ctorThrown>>
gateVars == <<gateIn, gateOut>>
vars == <<policy, budget, recorded, ret, monotone, evalReqs, evalOut, clock,
          lastSelected, lastRejected, lastBudgetBefore, lastBudgetAfter,
          calls, started, config, hooks, construction, ctorThrown,
          gateIn, gateOut>>

\* the guard's variables where no guard exists
NoGuard ==
  /\ clock = 0
  /\ lastSelected = Undefined
  /\ lastRejected = <<>>
  /\ lastBudgetBefore = Undefined
  /\ lastBudgetAfter = Undefined
  /\ calls = <<>>
  /\ started = 0

NoPolicy == GuardPolicy(Undefined, Undefined, Undefined, FALSE)
\* `again`: the call repeats the previous one (a query at the same time)
NoRet ==
  [op |-> "none", now |-> 0, amount |-> 0, ok |-> TRUE, total |-> 0,
   again |-> FALSE]

\* no constructor call is under observation
NoConstruction ==
  /\ config = [policy |-> NoPolicy, fieldsAreArray |-> TRUE]
  /\ hooks = {}
  /\ construction = "none"
  /\ ctorThrown = Undefined

\* no call of enforceResponseConditions is under observation
NoGate ==
  /\ gateIn = [res |-> Undefined, startedAtMs |-> 0, now |-> 0,
               conditions |-> Undefined]
  /\ gateOut = [done |-> FALSE, thrown |-> Undefined, cloned |-> FALSE,
                res |-> Undefined]
NoEvalOut ==
  [done |-> FALSE, acceptable |-> <<>>, rejected |-> <<>>, selected |-> Undefined,
   again |-> Undefined]

\* ------------------------------------------------------------------------
\* SpecBudget: one RollingBudget, its three methods called with any times
\* ------------------------------------------------------------------------
BudgetWindows == {1, 2}
BudgetLimits == {3}
BudgetAmounts == {1, 2}
Times == 0..MaxTime

InitBudget ==
  /\ policy = NoPolicy
  /\ \E w \in BudgetWindows, l \in BudgetLimits : budget = NewRollingBudget(w, l)
  /\ recorded = <<>>
  /\ ret = NoRet
  /\ monotone = TRUE
  /\ evalReqs = <<>>
  /\ evalOut = NoEvalOut
  /\ NoGuard
  /\ NoConstruction
  /\ NoGate

CallGetTotal(now) ==
  LET g == getTotal(budget, now)
  IN  /\ budget' = [budget EXCEPT !.events = g.events]
      /\ ret' = [op |-> "getTotal", now |-> now, amount |-> 0,
                 ok |-> TRUE, total |-> g.total,
                 again |-> (ret.op = "getTotal" /\ ret.now = now)]
      /\ monotone' = (monotone /\ now >= ret.now)
      /\ UNCHANGED <<policy, recorded, evalVars, ctorVars, gateVars, guardVars>>

CallCanSpend(amount, now) ==
  LET r == canSpend(budget, amount, now)
  IN  /\ budget' = [budget EXCEPT !.events = r.events]
      /\ ret' = [op |-> "canSpend", now |-> now, amount |-> amount,
                 ok |-> r.ok, total |-> r.total, again |-> FALSE]
      /\ monotone' = (monotone /\ now >= ret.now)
      /\ UNCHANGED <<policy, recorded, evalVars, ctorVars, gateVars, guardVars>>

CallRecord(amount, now) ==
  /\ Len(recorded) < MaxRecords
  /\ budget' = [budget EXCEPT !.events = record(budget, amount, now)]
  /\ recorded' = Append(recorded, SpendEvent(now, amount))
  /\ ret' = [op |-> "record", now |-> now, amount |-> amount,
             ok |-> TRUE, total |-> 0, again |-> FALSE]
  /\ monotone' = (monotone /\ now >= ret.now)
  /\ UNCHANGED <<policy, evalVars, ctorVars, gateVars, guardVars>>

NextBudget ==
  \/ \E now \in Times : CallGetTotal(now)
  \/ \E amount \in BudgetAmounts, now \in Times : CallCanSpend(amount, now)
  \/ \E amount \in BudgetAmounts, now \in Times : CallRecord(amount, now)

SpecBudget == InitBudget /\ [][NextBudget]_vars

\* ------------------------------------------------------------------------
\* SpecEval: evaluatePaymentRequirements on every policy and bounded list
\* ------------------------------------------------------------------------
AmountValues ==
  { StrValue(<<"1">>), StrValue(<<"2">>), StrValue(<<"3">>),
    StrValue(<<"-", "1">>), StrValue(<<"1", ".", "5">>), StrValue(<<>>),
    NotAString }

Payees == {"0xA", "0xB"}

Requirements == { PaymentRequirements(a, p) : a \in AmountValues, p \in Payees }

RECURSIVE SeqsUpTo(_, _)
\* the sequences over S of length 0..n
SeqsUpTo(S, n) ==
  IF n = 0 THEN { <<>> }
  ELSE LET shorter == SeqsUpTo(S, n - 1)
       IN  shorter \cup { Append(q, x) : q \in shorter, x \in S }

\* $0.0000025, which is 2 base units once floored
CapUsd == Usd(21, 8388608)

EvalPolicies ==
  { GuardPolicy(cap, Undefined, Undefined, cheapest) :
      cap \in {Undefined, Def(CapUsd)}, cheapest \in BOOLEAN }

InitEval ==
  /\ policy \in EvalPolicies
  /\ evalReqs \in SeqsUpTo(Requirements, MaxReqs)
  /\ evalOut = NoEvalOut
  /\ budget = NoRollingBudget
  /\ recorded = <<>>
  /\ ret = NoRet
  /\ monotone = TRUE
  /\ NoGuard
  /\ NoConstruction
  /\ NoGate

Evaluate ==
  /\ ~evalOut.done
  /\ LET out == evaluatePaymentRequirements(policy, evalReqs)
     IN  /\ evalOut' = [done |-> TRUE, acceptable |-> out.acceptable,
                        rejected |-> out.rejected, selected |-> Undefined,
                        again |-> Undefined]
         /\ evalReqs' = out.reqs
  /\ UNCHANGED <<policy, budget, ledgerVars, guardVars, ctorVars, gateVars>>

\* the same call once more, with the same policy object and the same array
EvaluateAgain ==
  /\ evalOut.done
  /\ ~IsDef(evalOut.again)
  /\ LET out == evaluatePaymentRequirements(policy, evalReqs)
     IN  /\ evalOut' = [evalOut EXCEPT !.again =
                           Def([acceptable |-> out.acceptable,
                                rejected |-> out.rejected])]
         /\ evalReqs' = out.reqs
  /\ UNCHANGED <<policy, budget, ledgerVars, guardVars, ctorVars, gateVars>>

\* the negotiation client selects one of the requirements the policy returned
SelectRequirement(i) ==
  /\ evalOut.done
  /\ ~IsDef(evalOut.selected)
  /\ i \in 1..Len(evalOut.acceptable)
  /\ evalOut' = [evalOut EXCEPT !.selected = Def(evalOut.acceptable[i])]
  /\ UNCHANGED <<policy, evalReqs, budget, ledgerVars, guardVars, ctorVars,
                 gateVars>>

NextEval ==
  \/ Evaluate
  \/ EvaluateAgain
  \/ \E i \in 1..MaxReqs : SelectRequirement(i)

SpecEval == InitEval /\ [][NextEval]_vars

\* ------------------------------------------------------------------------
\* Properties of the ledger (SpecBudget)
\* ------------------------------------------------------------------------
\* the amounts of the recorded events whose timestamp lies in [t - w, t]
WindowSum(evs, t, w) ==
  SumAmounts(SelectSeq(evs, LAMBDA e : t - w <= e.ts /\ e.ts <= t))

C3_CanSpendRejectsIffOverLimit ==
  ret.op = "canSpend" =>
    LET total == getTotal(budget, ret.now).total
    IN  /\ (~ret.ok) <=> (total + ret.amount > budget.limitBaseUnits)
        /\ (~ret.ok) => ret.total = total

\* a rejection over a non-empty window
C3_Witness ==
  /\ ret.op = "canSpend"
  /\ ~ret.ok
  /\ ret.total > 0
  /\ ret.total = WindowSum(recorded, ret.now, budget.windowMs)

\* ------------------------------------------------------------------------
\* src/utils/errors.ts : GuardError, and the other errors a call can meet
\* A message is the tuple of the fragments it is concatenated from: literal
\* text, or the digits of a formatted bigint.
\* ------------------------------------------------------------------------
Lit(text) == [lit |-> text]
Digits(n) == [digits |-> BigIntToString(n)]

\* new GuardError(code, explanation, details): message `${code}: ${explanation}`
GuardError(code, explanation, details) ==
  [name |-> "GuardError", code |-> Def(code),
   message |-> <<Lit(code), Lit(": ")>> \o explanation,
   explanation |-> explanation, details |-> details]

\* an error that is not a GuardError
OtherError(name, message) ==
  [name |-> name, code |-> Undefined, message |-> message,
   explanation |-> <<>>, details |-> Undefined]

IsGuardError(e) == e.name = "GuardError"

\* fragment.includes(needle) for the literal fragments of this model
FragmentIncludes(fragment, needle) ==
  \/ needle = "abort" /\ fragment \in {Lit("Payment creation aborted: "),
                                        Lit("This operation was aborted")}
  \/ needle = "Blocked by"
       /\ fragment = Lit("Blocked by budget window policy: total=")

\* msg.includes(needle)
MessageIncludes(message, needle) ==
  \E i \in 1..Len(message) : FragmentIncludes(message[i], needle)

\* ------------------------------------------------------------------------
\* src/policy/conditions.ts : enforceResponseConditions
\* ------------------------------------------------------------------------
GuardConditions(requireHttp2xx, maxLatencyMs, requiredJsonFields) ==
  [requireHttp2xx |-> requireHttp2xx, maxLatencyMs |-> maxLatencyMs,
   requiredJsonFields |-> requiredJsonFields]

\* a Response: its status, what parsing its body as JSON yields (Undefined
\* when the body is not JSON, else the object as a function field -> state),
\* and whether its body stream was read; the transport delivers it unread
Response(status, json) == [status |-> status, json |-> json, bodyUsed |-> FALSE]

FieldMissing_absentOnly(body, f) ==
  \/ f \notin DOMAIN body
  \/ body[f] = "absent"

\* (body as any)?.[f] is undefined or null
FieldMissing(body, f) ==
  \/ f \notin DOMAIN body
  \/ body[f] \in {"absent", "null"}

CloneJson_readsOriginal(res) ==
  [body |-> IF res.bodyUsed THEN Undefined ELSE res.json,
   res |-> [res EXCEPT !.bodyUsed = TRUE]]

\* await res.clone().json(): the body parsed from a copy (Undefined when
\* clone() or json() throws), and res, whose own body is left as it was
CloneJson(res) ==
  [body |-> IF res.bodyUsed THEN Undefined ELSE res.json,
   res |-> res]

\* new GuardError("RESPONSE_CONDITION_FAILED", explanation, {...})
ConditionFailed(explanation, res, latencyMs, missing) ==
  GuardError("RESPONSE_CONDITION_FAILED", <<Lit(explanation)>>,
             Def([latencyMs |-> latencyMs, status |-> res.status,
                  missing |-> missing]))

ResponseGate_statusBeforeLatency(res, startedAtMs, conditions, now) ==
  IF ~IsDef(conditions)
  THEN [thrown |-> Undefined, cloned |-> FALSE, res |-> res]
  ELSE
    LET c == Val(conditions)
        latencyMs == now - startedAtMs
        fields == IF IsDef(c.requiredJsonFields)
                  THEN Val(c.requiredJsonFields) ELSE <<>>
        parsed == CloneJson(res)
        missing == IF IsDef(parsed.body)
                   THEN SelectSeq(fields, LAMBDA f : FieldMissing(Val(parsed.body), f))
                   ELSE <<>>
    IN  IF c.requireHttp2xx /\ ~(res.status >= 200 /\ res.status < 300)
        THEN [thrown |-> Def(ConditionFailed(
                "Response status failed policy (expected 2xx).", res, latencyMs, <<>>)),
              cloned |-> FALSE, res |-> res]
        ELSE IF IsDef(c.maxLatencyMs) /\ latencyMs > Val(c.maxLatencyMs)
        THEN [thrown |-> Def(ConditionFailed(
                "Response exceeded max latency policy.", res, latencyMs, <<>>)),
              cloned |-> FALSE, res |-> res]
        ELSE IF Len(fields) = 0
        THEN [thrown |-> Undefined, cloned |-> FALSE, res |-> res]
        ELSE IF ~IsDef(parsed.body)
        THEN [thrown |-> Def(ConditionFailed(
                "Response is not valid JSON.", res, latencyMs, <<>>)),
              cloned |-> TRUE, res |-> parsed.res]
        ELSE IF Len(missing) > 0
        THEN [thrown |-> Def(ConditionFailed(
                "Response is missing required JSON fields.", res, latencyMs, missing)),
              cloned |-> TRUE, res |-> parsed.res]
        ELSE [thrown |-> Undefined, cloned |-> TRUE, res |-> parsed.res]

ResponseGate_lenientStatus(res, startedAtMs, conditions, now) ==
  IF ~IsDef(conditions)
  THEN [thrown |-> Undefined, cloned |-> FALSE, res |-> res]
  ELSE
    LET c == Val(conditions)
        latencyMs == now - startedAtMs
        fields == IF IsDef(c.requiredJsonFields)
                  THEN Val(c.requiredJsonFields) ELSE <<>>
        parsed == CloneJson(res)
        missing == IF IsDef(parsed.body)
                   THEN SelectSeq(fields, LAMBDA f : FieldMissing(Val(parsed.body), f))
                   ELSE <<>>
    IN  IF IsDef(c.maxLatencyMs) /\ latencyMs > Val(c.maxLatencyMs)
        THEN [thrown |-> Def(ConditionFailed(
                "Response exceeded max latency policy.", res, latencyMs, <<>>)),
              cloned |-> FALSE, res |-> res]
        ELSE IF c.requireHttp2xx /\ ~(res.status >= 200 /\ res.status <= 300)
        THEN [thrown |-> Def(ConditionFailed(
                "Response status failed policy (expected 2xx).", res, latencyMs, <<>>)),
              cloned |-> FALSE, res |-> res]
        ELSE IF Len(fields) = 0
        THEN [thrown |-> Undefined, cloned |-> FALSE, res |-> res]
        ELSE IF ~IsDef(parsed.body)
        THEN [thrown |-> Def(ConditionFailed(
                "Response is not valid JSON.", res, latencyMs, <<>>)),
              cloned |-> TRUE, res |-> parsed.res]
        ELSE IF Len(missing) > 0
        THEN [thrown |-> Def(ConditionFailed(
                "Response is missing required JSON fields.", res, latencyMs, missing)),
              cloned |-> TRUE, res |-> parsed.res]
        ELSE [thrown |-> Undefined, cloned |-> TRUE, res |-> parsed.res]

\* one run of enforceResponseConditions at time `now`: the GuardError it
\* throws (Undefined when the response passes), whether it cloned and parsed
\* the body, and the response as the run leaves it
ResponseGate(res, startedAtMs, conditions, now) ==
  IF ~IsDef(conditions)
  THEN [thrown |-> Undefined, cloned |-> FALSE, res |-> res]
  ELSE
    LET c == Val(conditions)
        latencyMs == now - startedAtMs
        fields == IF IsDef(c.requiredJsonFields)
                  THEN Val(c.requiredJsonFields) ELSE <<>>
        parsed == CloneJson(res)
        missing == IF IsDef(parsed.body)
                   THEN SelectSeq(fields, LAMBDA f : FieldMissing(Val(parsed.body), f))
                   ELSE <<>>
    IN  IF IsDef(c.maxLatencyMs) /\ latencyMs > Val(c.maxLatencyMs)
        THEN [thrown |-> Def(ConditionFailed(
                "Response exceeded max latency policy.", res, latencyMs, <<>>)),
              cloned |-> FALSE, res |-> res]
        ELSE IF c.requireHttp2xx /\ ~(res.status >= 200 /\ res.status < 300)
        THEN [thrown |-> Def(ConditionFailed(
                "Response status failed policy (expected 2xx).", res, latencyMs, <<>>)),
              cloned |-> FALSE, res |-> res]
        ELSE IF Len(fields) = 0
        THEN [thrown |-> Undefined, cloned |-> FALSE, res |-> res]
        ELSE IF ~IsDef(parsed.body)
        THEN [thrown |-> Def(ConditionFailed(
                "Response is not valid JSON.", res, latencyMs, <<>>)),
              cloned |-> TRUE, res |-> parsed.res]
        ELSE IF Len(missing) > 0
        THEN [thrown |-> Def(ConditionFailed(
                "Response is missing required JSON fields.", res, latencyMs, missing)),
              cloned |-> TRUE, res |-> parsed.res]
        ELSE [thrown |-> Undefined, cloned |-> TRUE, res |-> parsed.res]

\* Undefined when the response passes, else the GuardError thrown
enforceResponseConditions(res, startedAtMs, conditions, now) ==
  ResponseGate(res, startedAtMs, conditions, now).thrown

\* ------------------------------------------------------------------------
\* src/guard.ts : X402Guard
\* ------------------------------------------------------------------------
\* $0.0000035, which is 3 base units once floored
LimitUsd == Usd(29, 8388608)

BudgetPolicy == BudgetWindowPolicy(LimitUsd, 1)

ResponsePolicy == GuardConditions(TRUE, Def(1), Def(<<"result">>))

\* no policy, each policy alone, and all of them together with
\* cheapest-first
GuardPolicies ==
  { GuardPolicy(Undefined, Undefined, Undefined, FALSE),
    GuardPolicy(Def(CapUsd), Undefined, Undefined, FALSE),
    GuardPolicy(Undefined, Def(BudgetPolicy), Undefined, FALSE),
    GuardPolicy(Undefined, Undefined, Def(ResponsePolicy), FALSE),
    GuardPolicy(Def(CapUsd), Def(BudgetPolicy), Def(ResponsePolicy), TRUE) }

\* what a resource server may advertise in `accepts`
AcceptsAmounts ==
  { StrValue(<<"2">>), StrValue(<<"4">>),
    StrValue(<<"-", "1">>), StrValue(<<"1", ".", "5">>) }

AcceptsLists ==
  SeqsUpTo({ PaymentRequirements(a, "0xA") : a \in AcceptsAmounts }, MaxAccepts)

\* what the transport may deliver
Responses ==
  { Response(200, Def([result |-> "value"])),
    Response(200, Def([result |-> "null"])),
    Response(500, Def([result |-> "value"])) }

\* what the transport or the signer may throw
TransportErrors ==
  { OtherError("TypeError", <<Lit("fetch failed")>>),
    OtherError("AbortError", <<Lit("This operation was aborted")>>) }

\* the locals of one call of fetch and of the negotiation it awaits (delivered
\* is the response as the transport produced it, res the same object as the
\* call has left it, leaving the throw or return that follows emitDecision),
\* and what the call did (admission, signed, spent, sinkThrew) and gave its
\* caller (emitted, outcome, raised, returned)
IdleCall ==
  [pc |-> "idle", startedAt |-> 0, selected |-> Undefined,
   thrown |-> Undefined, res |-> Undefined, delivered |-> Undefined,
   emitted |-> <<>>, leaving |-> Undefined, sinkThrew |-> FALSE,
   outcome |-> "pending", raised |-> Undefined, returned |-> Undefined,
   filtered |-> FALSE, admission |-> "none", signed |-> FALSE, spent |-> <<>>,
   refused |-> Undefined, overlapped |-> FALSE,
   own |-> [lastSelected |-> Undefined, lastRejected |-> <<>>,
            lastBudgetBefore |-> Undefined, lastBudgetAfter |-> Undefined]]

CallIds == DOMAIN calls

NoCallInFlight == \A c \in CallIds : calls[c].pc \in {"idle", "done"}

\* the constructor: validated policy, a RollingBudget when a budget is set
InitGuard ==
  /\ policy \in GuardPolicies
  /\ budget = IF IsDef(policy.budget)
              THEN NewRollingBudget(Val(policy.budget).windowMs,
                                    usdToUsdcBaseUnits(Val(policy.budget).limitUsd))
              ELSE NoRollingBudget
  /\ clock = 0
  /\ lastSelected = Undefined
  /\ lastRejected = <<>>
  /\ lastBudgetBefore = Undefined
  /\ lastBudgetAfter = Undefined
  /\ calls = <<IdleCall>>
  /\ started = 0
  /\ recorded = <<>>
  /\ ret = NoRet
  /\ monotone = TRUE
  /\ evalReqs = <<>>
  /\ evalOut = NoEvalOut
  /\ NoConstruction
  /\ NoGate

\* Date.now() read again later in the same synchronous code: the same
\* millisecond or the next
LaterNow == { t \in {clock, clock + 1} : t <= MaxClock }

\* time passes while a call awaits the network or the signer (the time that
\* passes between two calls is FetchStart's)
Tick ==
  /\ clock < MaxClock
  /\ \E c \in CallIds : calls[c].pc \in {"paidFetch", "sign", "retry"}
  /\ \A c \in CallIds : calls[c].pc \in {"idle", "done", "paidFetch", "sign", "retry"}
  /\ clock' = clock + 1
  /\ UNCHANGED <<policy, budget, ledgerVars, evalVars, ctorVars, gateVars, scratchVars, calls, started>>

\* the guard's scratch fields as one record
Scratch ==
  [lastSelected |-> lastSelected, lastRejected |-> lastRejected,
   lastBudgetBefore |-> lastBudgetBefore, lastBudgetAfter |-> lastBudgetAfter]

ScratchReset_keepsSelected(prev) ==
  [lastSelected |-> prev.lastSelected, lastRejected |-> <<>>,
   lastBudgetBefore |-> Undefined, lastBudgetAfter |-> Undefined]

ScratchReset_keepsRejected(prev) ==
  [lastSelected |-> Undefined, lastRejected |-> prev.lastRejected,
   lastBudgetBefore |-> Undefined, lastBudgetAfter |-> Undefined]

\* the scratch fields after the reset that opens fetch
ScratchReset(prev) ==
  [lastSelected |-> Undefined, lastRejected |-> <<>>,
   lastBudgetBefore |-> Undefined, lastBudgetAfter |-> Undefined]

\* some other call of fetch has started and not yet ended
InFlight(c) == calls[c].pc \notin {"idle", "done"}

\* fetch, called at time `now`, up to the await of paidFetch; history
\* `overlapped`: the call ran while another call was in flight
FetchStart(c, now) ==
  /\ calls[c].pc \in {"idle", "done"}
  /\ started < MaxCalls
  /\ started' = started + 1
  /\ clock' = now
  /\ LET reset == ScratchReset(Scratch)
     IN  /\ lastRejected' = reset.lastRejected
         /\ lastSelected' = reset.lastSelected
         /\ lastBudgetBefore' = reset.lastBudgetBefore
         /\ lastBudgetAfter' = reset.lastBudgetAfter
  /\ calls' = [d \in CallIds |->
                 IF d = c
                 THEN [IdleCall EXCEPT !.pc = "paidFetch", !.startedAt = now,
                         !.overlapped = \E o \in CallIds : InFlight(o)]
                 ELSE IF InFlight(d)
                      THEN [calls[d] EXCEPT !.overlapped = TRUE]
                      ELSE calls[d]]
  /\ UNCHANGED <<policy, budget, ledgerVars, evalVars, ctorVars, gateVars>>

\* { scheme, network, amount, payTo } of a requirement
AvailableRequirement(r) ==
  [scheme |-> r.scheme, network |-> r.network, amount |-> r.amount,
   payTo |-> r.payTo]

NoAcceptableError_parseableOnly(reqs) ==
  LET priced == SelectSeq(reqs,
                  LAMBDA r : IsDef(parseUsdcAmountBaseUnits(r)))
  IN  GuardError("PAYMENT_BLOCKED_NO_ACCEPTABLE_REQUIREMENTS",
        <<Lit("No acceptable payment requirements remain after applying guard policy.")>>,
        Def([available |->
               [i \in 1..Len(priced) |-> AvailableRequirement(priced[i])]]))

\* the error applyRequirementPolicies throws when nothing is acceptable
NoAcceptableError(reqs) ==
  GuardError("PAYMENT_BLOCKED_NO_ACCEPTABLE_REQUIREMENTS",
    <<Lit("No acceptable payment requirements remain after applying guard policy.")>>,
    Def([available |->
           [i \in 1..Len(reqs) |-> AvailableRequirement(reqs[i])]]))

\* the server answered 402 with `reqs`; the client calls the registered
\* policy (applyRequirementPolicies) and selects one of the returned
\* requirements, or the policy's error leaves paidFetch
ApplyRequirementPolicies(c, reqs) ==
  /\ calls[c].pc = "paidFetch"
  /\ LET out == evaluatePaymentRequirements(policy, reqs)
     IN  /\ lastRejected' = out.rejected
         /\ IF Len(out.acceptable) = 0
            THEN calls' = [calls EXCEPT ![c].pc = "catch",
                              ![c].filtered = TRUE,
                              ![c].own.lastRejected = out.rejected,
                              ![c].thrown = Def(NoAcceptableError(reqs)),
                              ![c].refused = Def(reqs)]
            ELSE \E i \in 1..Len(out.acceptable) :
                   calls' = [calls EXCEPT ![c].pc = "before",
                                ![c].filtered = TRUE,
                                ![c].own.lastRejected = out.rejected,
                                ![c].selected = Def(out.acceptable[i])]
  /\ UNCHANGED <<policy, budget, ledgerVars, evalVars, ctorVars, gateVars, clock, lastSelected,
                 lastBudgetBefore, lastBudgetAfter, started>>

\* the reason string of the before-hook's abort
BudgetAbortReason(total, amount) ==
  <<Lit("Blocked by budget window policy: total="), Digits(total),
    Lit(" + next="), Digits(amount), Lit(" exceeds limit.")>>

BeforeHookResult_abortsOnOk(check, amount) ==
  IF check.ok
  THEN [abort |-> TRUE, reason |-> BudgetAbortReason(0, amount)]
  ELSE [abort |-> FALSE, reason |-> <<>>]

BeforeHookResult_neverAborts(check, amount) ==
  [abort |-> FALSE, reason |-> <<>>]

\* what the onBeforePaymentCreation hook returns for canSpend's result
BeforeHookResult(check, amount) ==
  IF ~check.ok
  THEN [abort |-> TRUE, reason |-> BudgetAbortReason(check.total, amount)]
  ELSE [abort |-> FALSE, reason |-> <<>>]

\* history: what the admission check of the call decided
Admission(check) == IF check.ok THEN "ok" ELSE "rejected"

\* the error paidFetch rejects with when a before-hook aborts
AbortedError(reason) ==
  OtherError("Error", <<Lit("Payment creation aborted: ")>> \o reason)

\* the onBeforePaymentCreation hook, and the client acting on its result
OnBeforePaymentCreation(c) ==
  /\ calls[c].pc = "before"
  /\ LET sel == Val(calls[c].selected)
         amount == parseUsdcAmountBaseUnits(sel)
     IN  IF ~IsDef(amount)
         THEN /\ calls' = [calls EXCEPT ![c].pc = "sign",
                              ![c].admission = "skipped"]
              /\ UNCHANGED <<budget, clock, scratchVars>>
         ELSE
           /\ lastSelected' = Def(sel)
           /\ UNCHANGED <<lastRejected, lastBudgetAfter>>
           /\ IF ~budget.present
              THEN /\ calls' = [calls EXCEPT ![c].pc = "sign",
                                   ![c].admission = "ok",
                                   ![c].own.lastSelected = Def(sel)]
                   /\ UNCHANGED <<budget, clock, lastBudgetBefore>>
              ELSE \E t2 \in LaterNow :
                   LET g == getTotal(budget, clock)
                       b1 == [budget EXCEPT !.events = g.events]
                       check == canSpend(b1, Val(amount), t2)
                       result == BeforeHookResult(check, Val(amount))
                   IN  /\ lastBudgetBefore' = Def(g.total)
                       /\ budget' = [budget EXCEPT !.events = check.events]
                       /\ clock' = t2
                       /\ IF result.abort
                          THEN calls' = [calls EXCEPT ![c].pc = "catch",
                                   ![c].admission = Admission(check),
                                   ![c].own.lastSelected = Def(sel),
                                   ![c].own.lastBudgetBefore = Def(g.total),
                                   ![c].thrown = Def(AbortedError(result.reason))]
                          ELSE calls' = [calls EXCEPT ![c].pc = "sign",
                                   ![c].admission = Admission(check),
                                   ![c].own.lastSelected = Def(sel),
                                   ![c].own.lastBudgetBefore = Def(g.total)]
  /\ UNCHANGED <<policy, ledgerVars, evalVars, ctorVars, gateVars, started>>

\* the client creates (signs) the payment payload
CreatePaymentPayload(c) ==
  /\ calls[c].pc = "sign"
  /\ calls' = [calls EXCEPT ![c].pc = "after", ![c].signed = TRUE]
  /\ UNCHANGED <<policy, budget, ledgerVars, evalVars, ctorVars, gateVars, clock, scratchVars, started>>

\* the onAfterPaymentCreation hook
OnAfterPaymentCreation(c) ==
  /\ calls[c].pc = "after"
  /\ LET sel == Val(calls[c].selected)
         amount == parseUsdcAmountBaseUnits(sel)
     IN  IF ~IsDef(amount) \/ ~budget.present
         THEN /\ calls' = [calls EXCEPT ![c].pc = "retry"]
              /\ UNCHANGED <<budget, recorded, clock, lastBudgetAfter>>
         ELSE \E t2 \in LaterNow :
              LET b1 == [budget EXCEPT !.events = record(budget, Val(amount), clock)]
                  g == getTotal(b1, t2)
              IN  /\ budget' = [budget EXCEPT !.events = g.events]
                  /\ recorded' = Append(recorded, SpendEvent(clock, Val(amount)))
                  /\ lastBudgetAfter' = Def(g.total)
                  /\ clock' = t2
                  /\ calls' = [calls EXCEPT ![c].pc = "retry",
                        ![c].own.lastBudgetAfter = Def(g.total),
                        ![c].spent = Append(@, SpendEvent(clock, Val(amount)))]
  /\ UNCHANGED <<policy, ret, monotone, evalVars, ctorVars, gateVars, lastSelected, lastRejected,
                 lastBudgetBefore, started>>

\* paidFetch resolves: the first answer was not a 402, or the paid retry
\* was answered
PaidFetchResolves(c, res) ==
  /\ calls[c].pc \in {"paidFetch", "retry"}
  /\ calls' = [calls EXCEPT ![c].pc = "gate", ![c].res = Def(res),
                            ![c].delivered = Def(res)]
  /\ UNCHANGED <<policy, budget, ledgerVars, evalVars, ctorVars, gateVars, clock, scratchVars, started>>

\* paidFetch rejects with an error of the transport or of the signer
PaidFetchRejects(c, e) ==
  /\ calls[c].pc \in {"paidFetch", "sign", "retry"}
  /\ calls' = [calls EXCEPT ![c].pc = "catch", ![c].thrown = Def(e)]
  /\ UNCHANGED <<policy, budget, ledgerVars, evalVars, ctorVars, gateVars, clock, scratchVars, started>>

\* the GuardDecision["payment"] that buildPaymentAudit builds from scratch
\* fields `s`
PaymentAudit(s) ==
  [selected |-> IF IsDef(s.lastSelected)
                THEN Def(RequirementSnapshot(Val(s.lastSelected))) ELSE Undefined,
   rejected |-> IF Len(s.lastRejected) > 0 THEN Def(s.lastRejected) ELSE Undefined,
   budget |-> IF budget.present
              THEN Def([windowMs |-> Val(policy.budget).windowMs,
                        totalBeforeBaseUnits |->
                          IF IsDef(s.lastBudgetBefore)
                          THEN Def(BigIntToString(Val(s.lastBudgetBefore)))
                          ELSE Undefined,
                        totalAfterBaseUnits |->
                          IF IsDef(s.lastBudgetAfter)
                          THEN Def(BigIntToString(Val(s.lastBudgetAfter)))
                          ELSE Undefined,
                        limitBaseUnits |->
                          BigIntToString(
                            usdToUsdcBaseUnits(Val(policy.budget).limitUsd))])
              ELSE Undefined]

\* buildPaymentAudit()
buildPaymentAudit == PaymentAudit(Scratch)

\* GuardDecision (src/receipt.ts)
DenyDecision(code, explanation, details, payment) ==
  [decision |-> "deny", code |-> Def(code), explanation |-> explanation,
   details |-> details, payment |-> payment, response |-> Undefined]

AllowDecision(payment, response) ==
  [decision |-> "allow", code |-> Undefined, explanation |-> <<>>,
   details |-> Undefined, payment |-> payment, response |-> Def(response)]

CatchPaidFetch_rethrowsAbort(e, payment) ==
  LET msg == e.message
  IN  IF MessageIncludes(msg, "abort") \/ MessageIncludes(msg, "Blocked by")
      THEN LET ge == GuardError("PAYMENT_BLOCKED_BUDGET_WINDOW", msg, Undefined)
           IN  [emit |-> <<DenyDecision(Val(ge.code), ge.explanation,
                                        ge.details, payment)>>,
                throw |-> Def(e), return |-> Undefined]
      ELSE [emit |-> <<DenyDecision("POLICY_INVALID", msg, Undefined, payment)>>,
            throw |-> Def(e), return |-> Undefined]

CatchPaidFetch_silentRethrow(e, payment) ==
  LET msg == e.message
  IN  IF MessageIncludes(msg, "abort") \/ MessageIncludes(msg, "Blocked by")
      THEN LET ge == GuardError("PAYMENT_BLOCKED_BUDGET_WINDOW", msg, Undefined)
           IN  [emit |-> <<DenyDecision(Val(ge.code), ge.explanation,
                                        ge.details, payment)>>,
                throw |-> Def(ge), return |-> Undefined]
      ELSE [emit |-> <<>>, throw |-> Def(e), return |-> Undefined]

\* the catch block around `await this.paidFetch(...)`: the records it hands
\* to emitDecision and the error it throws
CatchPaidFetch(e, payment) ==
  LET msg == e.message
  IN  IF MessageIncludes(msg, "abort") \/ MessageIncludes(msg, "Blocked by")
      THEN LET ge == GuardError("PAYMENT_BLOCKED_BUDGET_WINDOW", msg, Undefined)
           IN  [emit |-> <<DenyDecision(Val(ge.code), ge.explanation,
                                        ge.details, payment)>>,
                throw |-> Def(ge), return |-> Undefined]
      ELSE [emit |-> <<DenyDecision("POLICY_INVALID", msg, Undefined, payment)>>,
            throw |-> Def(e), return |-> Undefined]

AfterResponse_silentDeny(res, gate, payment, latencyMs) ==
  IF IsDef(gate)
  THEN [emit |-> <<>>, throw |-> gate, return |-> Undefined]
  ELSE [emit |-> <<AllowDecision(payment,
                      [status |-> res.status, latencyMs |-> latencyMs])>>,
        throw |-> Undefined, return |-> Def(res)]

AfterResponse_returnsAnyway(res, gate, payment, latencyMs) ==
  IF IsDef(gate)
  THEN LET e == Val(gate)
       IN  [emit |-> <<DenyDecision(Val(e.code), e.explanation,
                                    e.details, payment)>>,
            throw |-> Undefined, return |-> Def(res)]
  ELSE [emit |-> <<AllowDecision(payment,
                      [status |-> res.status, latencyMs |-> latencyMs])>>,
        throw |-> Undefined, return |-> Def(res)]

\* fetch from the response on: the response gate, the records handed to
\* emitDecision, and the error thrown or the response returned
AfterResponse(res, gate, payment, latencyMs) ==
  IF IsDef(gate)
  THEN LET e == Val(gate)
       IN  [emit |-> IF IsGuardError(e)
                     THEN <<DenyDecision(Val(e.code), e.explanation,
                                         e.details, payment)>>
                     ELSE <<>>,
            throw |-> Def(e), return |-> Undefined]
  ELSE [emit |-> <<AllowDecision(payment,
                      [status |-> res.status, latencyMs |-> latencyMs])>>,
        throw |-> Undefined, return |-> Def(res)]

emitDecision_rethrows(sinkThrows) ==
  IF sinkThrows THEN Def(OtherError("Error", <<Lit("audit sink failed")>>))
  ELSE Undefined

\* emitDecision(record) with a sink that returns or throws: the error that
\* leaves emitDecision (none: the catch swallows what the sink throws)
emitDecision(sinkThrows) == Undefined

\* fetch hands the records CatchPaidFetch / AfterResponse built to the audit
\* sink through emitDecision; the throw or the return is the statement after
Emit(c, end, sinkThrows, res) ==
  LET called == Len(end.emit) > 0
      escaped == IF called THEN emitDecision(sinkThrows) ELSE Undefined
  IN  calls' = [calls EXCEPT ![c].pc = "leave",
                  ![c].res = res,
                  ![c].emitted = @ \o end.emit,
                  ![c].sinkThrew = called /\ sinkThrows,
                  ![c].leaving =
                     IF IsDef(escaped)
                     THEN Def([throw |-> escaped, return |-> Undefined])
                     ELSE Def([throw |-> end.throw, return |-> end.return])]

FetchCatch(c, sinkThrows) ==
  /\ calls[c].pc = "catch"
  /\ Emit(c, CatchPaidFetch(Val(calls[c].thrown), buildPaymentAudit),
          sinkThrows, calls[c].res)
  /\ UNCHANGED <<policy, budget, ledgerVars, evalVars, ctorVars, gateVars, clock, scratchVars, started>>

FetchGate(c, sinkThrows) ==
  /\ calls[c].pc = "gate"
  /\ LET res == Val(calls[c].res)
         run == ResponseGate(res, calls[c].startedAt, policy.conditions, clock)
     IN  Emit(c, AfterResponse(run.res, run.thrown, buildPaymentAudit,
                               clock - calls[c].startedAt),
              sinkThrows, Def(run.res))
  /\ UNCHANGED <<policy, budget, ledgerVars, evalVars, ctorVars, gateVars, clock, scratchVars, started>>

\* the throw or the return that ends the call of fetch
Leave(c) ==
  /\ calls[c].pc = "leave"
  /\ LET end == Val(calls[c].leaving)
     IN  calls' = [calls EXCEPT ![c].pc = "done",
                     ![c].outcome = IF IsDef(end.throw) THEN "raised" ELSE "returned",
                     ![c].raised = end.throw,
                     ![c].returned = end.return]
  /\ UNCHANGED <<policy, budget, ledgerVars, evalVars, ctorVars, gateVars, clock, scratchVars, started>>

\* one guard, guarded calls one at a time
Next ==
  \/ Tick
  \/ \E c \in CallIds, now \in clock..MaxClock :
       NoCallInFlight /\ FetchStart(c, now)
  \/ \E c \in CallIds, reqs \in AcceptsLists : ApplyRequirementPolicies(c, reqs)
  \/ \E c \in CallIds : OnBeforePaymentCreation(c)
  \/ \E c \in CallIds : CreatePaymentPayload(c)
  \/ \E c \in CallIds : OnAfterPaymentCreation(c)
  \/ \E c \in CallIds, res \in Responses : PaidFetchResolves(c, res)
  \/ \E c \in CallIds, e \in TransportErrors : PaidFetchRejects(c, e)
  \/ \E c \in CallIds, sinkThrows \in BOOLEAN : FetchCatch(c, sinkThrows)
  \/ \E c \in CallIds, sinkThrows \in BOOLEAN : FetchGate(c, sinkThrows)
  \/ \E c \in CallIds : Leave(c)

Spec == InitGuard /\ [][Next]_vars

\* ------------------------------------------------------------------------
\* SpecConcurrent: one guard with a cap and a budget, two callers that each
\* call fetch once; the calls may overlap (a call suspended at an await lets
\* the other run; the code between two awaits runs to completion)

ConcurrentPolicy == GuardPolicy(Def(CapUsd), Def(BudgetPolicy), Undefined, FALSE)

ConcurrentAccepts ==
  { <<PaymentRequirements(StrValue(<<"2">>), "0xA")>>,
    <<PaymentRequirements(StrValue(<<"4">>), "0xA"),
      PaymentRequirements(StrValue(<<"2">>), "0xB")>> }

ConcurrentResponses == { Response(200, Def([result |-> "value"])) }

ConcurrentErrors == { OtherError("TypeError", <<Lit("fetch failed")>>) }

InitConcurrent ==
  /\ policy = ConcurrentPolicy
  /\ budget = NewRollingBudget(Val(policy.budget).windowMs,
                               usdToUsdcBaseUnits(Val(policy.budget).limitUsd))
  /\ clock = 0
  /\ lastSelected = Undefined
  /\ lastRejected = <<>>
  /\ lastBudgetBefore = Undefined
  /\ lastBudgetAfter = Undefined
  /\ calls = <<IdleCall, IdleCall>>
  /\ started = 0
  /\ recorded = <<>>
  /\ ret = NoRet
  /\ monotone = TRUE
  /\ evalReqs = <<>>
  /\ evalOut = NoEvalOut
  /\ NoConstruction
  /\ NoGate

NextConcurrent ==
  \/ Tick
  \/ \E c \in CallIds, now \in clock..MaxClock :
       calls[c].pc = "idle" /\ FetchStart(c, now)
  \/ \E c \in CallIds, reqs \in ConcurrentAccepts :
       ApplyRequirementPolicies(c, reqs)
  \/ \E c \in CallIds : OnBeforePaymentCreation(c)
  \/ \E c \in CallIds : CreatePaymentPayload(c)
  \/ \E c \in CallIds : OnAfterPaymentCreation(c)
  \/ \E c \in CallIds, res \in ConcurrentResponses : PaidFetchResolves(c, res)
  \/ \E c \in CallIds, e \in ConcurrentErrors : PaidFetchRejects(c, e)
  \/ \E c \in CallIds : FetchCatch(c, FALSE)
  \/ \E c \in CallIds : FetchGate(c, FALSE)
  \/ \E c \in CallIds : Leave(c)

SpecConcurrent == InitConcurrent /\ [][NextConcurrent]_vars

\* ------------------------------------------------------------------------
\* SpecConstruct: new X402Guard(fetchImpl, config) with any policy, then
\* calls of fetch on the instance when there is one
\* ------------------------------------------------------------------------
ConstructCaps == {Undefined, Def(CapUsd), Def(Usd(0, 1)), Def(Usd(-1, 1))}

\* a limit whose product with 1_000_000 lies less than half a unit in the
\* last place below 11
TinyLimitUsd == Usd(11811, 1073741824)

ConstructBudgets ==
  {Undefined, Def(BudgetWindowPolicy(LimitUsd, 1)),
   Def(BudgetWindowPolicy(TinyLimitUsd, 1)),
   Def(BudgetWindowPolicy(Usd(0, 1), 1)), Def(BudgetWindowPolicy(LimitUsd, 0))}

ConstructConditions ==
  {Undefined,
   Def(GuardConditions(TRUE, Def(1), Def(<<"result">>))),
   Def(GuardConditions(FALSE, Def(0), Undefined)),
   Def(GuardConditions(TRUE, Undefined, Def(<<>>)))}

\* a non-array requiredJsonFields is a value that is there
Configs ==
  { cfg \in [policy : { GuardPolicy(cap, bud, cond, cheapest) :
                          cap \in ConstructCaps, bud \in ConstructBudgets,
                          cond \in ConstructConditions, cheapest \in BOOLEAN },
             fieldsAreArray : BOOLEAN] :
      ~cfg.fieldsAreArray =>
        /\ IsDef(cfg.policy.conditions)
        /\ IsDef(Val(cfg.policy.conditions).requiredJsonFields) }

InitConstruct ==
  /\ config \in Configs
  /\ construction = "new"
  /\ hooks = {}
  /\ ctorThrown = Undefined
  /\ policy = NoPolicy
  /\ budget = NoRollingBudget
  /\ recorded = <<>>
  /\ ret = NoRet
  /\ monotone = TRUE
  /\ evalReqs = <<>>
  /\ evalOut = NoEvalOut
  /\ NoGuard
  /\ NoGate

\* the constructor of X402Guard
Construct ==
  /\ construction = "new"
  /\ LET invalid == validatePolicy(config.policy, config.fieldsAreArray)
     IN  IF IsDef(invalid)
         THEN /\ construction' = "failed"
              /\ ctorThrown' = Def(GuardError("POLICY_INVALID",
                                     <<Lit("Invalid guard policy.")>>,
                                     Def([error |-> <<Lit("Error: "), Lit(Val(invalid))>>])))
              /\ UNCHANGED <<policy, budget, hooks>>
         ELSE /\ policy' = config.policy
              /\ budget' = IF IsDef(config.policy.budget)
                           THEN NewRollingBudget(
                                  Val(config.policy.budget).windowMs,
                                  usdToUsdcBaseUnits(Val(config.policy.budget).limitUsd))
                           ELSE NoRollingBudget
              /\ hooks' = {"registerPolicy", "onBeforePaymentCreation",
                           "onAfterPaymentCreation"}
              /\ construction' = "constructed"
              /\ UNCHANGED ctorThrown
  /\ UNCHANGED <<config, ledgerVars, evalVars, guardVars, gateVars>>

\* guard.fetch(...) is called: there is a guard to call it on
GuardedFetch ==
  /\ construction = "constructed"
  /\ started < MaxCalls
  /\ started' = started + 1
  /\ UNCHANGED <<policy, budget, ledgerVars, evalVars, clock, scratchVars,
                 calls, ctorVars, gateVars>>

NextConstruct ==
  \/ Construct
  \/ GuardedFetch

SpecConstruct == InitConstruct /\ [][NextConstruct]_vars

\* ------------------------------------------------------------------------
\* SpecGate: enforceResponseConditions applied to any response, latency and
\* conditions
\* ------------------------------------------------------------------------
GateStatuses == {199, 200, 299, 300, 500}

FieldStates == {"absent", "null", "value"}

GateBodies ==
  {Undefined} \cup { Def([result |-> a, ok |-> b]) : a, b \in FieldStates }

GateResponses == { Response(st, body) : st \in GateStatuses, body \in GateBodies }

GateFieldLists ==
  {Undefined, Def(<<>>), Def(<<"result">>), Def(<<"ok", "result">>)}

GateConditions ==
  {Undefined} \cup
  { Def(GuardConditions(h, l, f)) :
      h \in BOOLEAN, l \in {Undefined, Def(1)}, f \in GateFieldLists }

InitGate ==
  /\ \E res \in GateResponses, t0 \in 0..MaxClock, cond \in GateConditions :
       \E t1 \in t0..MaxClock :
         gateIn = [res |-> Def(res), startedAtMs |-> t0, now |-> t1,
                   conditions |-> cond]
  /\ gateOut = [done |-> FALSE, thrown |-> Undefined, cloned |-> FALSE,
                res |-> Undefined]
  /\ policy = NoPolicy
  /\ budget = NoRollingBudget
  /\ recorded = <<>>
  /\ ret = NoRet
  /\ monotone = TRUE
  /\ evalReqs = <<>>
  /\ evalOut = NoEvalOut
  /\ NoGuard
  /\ NoConstruction

\* await enforceResponseConditions(res, startedAtMs, conditions)
CheckResponse ==
  /\ ~gateOut.done
  /\ LET run == ResponseGate(Val(gateIn.res), gateIn.startedAtMs,
                             gateIn.conditions, gateIn.now)
     IN  gateOut' = [done |-> TRUE, thrown |-> run.thrown,
                     cloned |-> run.cloned, res |-> Def(run.res)]
  /\ UNCHANGED <<policy, budget, ledgerVars, evalVars, guardVars, ctorVars, gateIn>>

NextGate == CheckResponse

SpecGate == InitGate /\ [][NextGate]_vars

\* ------------------------------------------------------------------------
\* Properties of the evaluator (SpecEval)
\* ------------------------------------------------------------------------
Capped == IsDef(policy.maxPerPaymentUsd)
CapBaseUnits == usdToUsdcBaseUnits(Val(policy.maxPerPaymentUsd))

\* the amount of r parses and is at most the cap
WithinCap(r) ==
  LET amount == parseUsdcAmountBaseUnits(r)
  IN  IsDef(amount) /\ Val(amount) <= CapBaseUnits

\* C5: with a cap C configured, every requirement of the acceptable output
\* has a parseable amount <= C, and so has the requirement the negotiation
\* client selects from that output for signing.
C5_AcceptableWithinCap ==
  (evalOut.done /\ Capped) =>
    /\ \A i \in 1..Len(evalOut.acceptable) : WithinCap(evalOut.acceptable[i])
    /\ IsDef(evalOut.selected) => WithinCap(Val(evalOut.selected))

\* a requirement over the cap or unparseable was dropped, an affordable one
\* was kept and selected
C5_Witness ==
  /\ evalOut.done
  /\ Capped
  /\ \E i \in 1..Len(evalReqs) : ~WithinCap(evalReqs[i])
  /\ Len(evalOut.acceptable) = 1
  /\ IsDef(evalOut.selected)

\* the number of places at which x occurs in q
Occurrences(q, x) == Cardinality({ i \in 1..Len(q) : q[i] = x })

\* the requirements of the rejected output
RejectedRequirements ==
  [ j \in 1..Len(evalOut.rejected) |-> evalOut.rejected[j].requirement ]

\* the snapshots of the input list
InputSnapshots ==
  [ i \in 1..Len(evalReqs) |-> RequirementSnapshot(evalReqs[i]) ]

\* C6: with a cap C configured, every requirement with an amount > C or an
\* unparseable amount is in the rejected output with ABOVE_PER_PAYMENT_CAP,
\* and acceptable together with the originals of rejected is the input.
C6_EveryDropIsRecorded ==
  (evalOut.done /\ Capped) =>
    /\ \A i \in 1..Len(evalReqs) :
         ~WithinCap(evalReqs[i]) =>
           \E j \in 1..Len(evalOut.rejected) :
             /\ evalOut.rejected[j].requirement = RequirementSnapshot(evalReqs[i])
             /\ evalOut.rejected[j].reason = "ABOVE_PER_PAYMENT_CAP"
    /\ \A i \in 1..Len(evalReqs) :
         Occurrences(evalOut.acceptable, evalReqs[i])
           + Occurrences(RejectedRequirements, RequirementSnapshot(evalReqs[i]))
         >= Occurrences(InputSnapshots, RequirementSnapshot(evalReqs[i]))
    /\ Len(evalOut.acceptable) + Len(evalOut.rejected) = Len(evalReqs)

\* ------------------------------------------------------------------------
\* Properties of the guard (Spec)
\* ------------------------------------------------------------------------
\* C1: with a budget configured, calls one at a time and a non-decreasing
\* clock, for every time t the amounts of the spend events recorded with a
\* timestamp in [t - windowMs, t] sum to at most the limit.
C1_WindowSpendWithinLimit ==
  budget.present =>
    \A t \in 0..MaxClock :
      WindowSum(recorded, t, budget.windowMs) <= budget.limitBaseUnits

\* C4: when the admission check of the before-hook rejects, the attempt is
\* aborted: it is never signed, the after-hook records nothing for it, and
\* the call ends by raising.
C4_RejectedAdmissionNeverSigns ==
  \A c \in CallIds :
    calls[c].admission = "rejected" =>
      /\ ~calls[c].signed
      /\ calls[c].spent = <<>>
      /\ calls[c].pc \in {"catch", "leave", "done"}
      /\ calls[c].outcome \in {"pending", "raised"}

\* a call whose admission was rejected over earlier recorded spend has ended
C4_Witness ==
  \E c \in CallIds :
    /\ calls[c].admission = "rejected"
    /\ calls[c].pc = "done"
    /\ Len(budget.events) > 0
    /\ budget.events = recorded

\* the selected requirement of a call that reached the signer
ReachedSigner(c) ==
  calls[c].signed \/ calls[c].pc \in {"sign", "after", "retry"}

\* C7: whatever the policy, a requirement whose amount cannot be parsed
\* never proceeds to signing.
C7_UnparseableNeverSigned ==
  \A c \in CallIds :
    ReachedSigner(c) =>
      IsDef(parseUsdcAmountBaseUnits(Val(calls[c].selected)))

\* C8: a call of fetch that has ended reached one outcome and handed exactly
\* one decision record, allow or deny, to the audit sink; a call that has not
\* reached its final throw or return has handed none.
C8_OneDecisionPerCall ==
  \A c \in CallIds :
    /\ calls[c].pc = "done" =>
         /\ Len(calls[c].emitted) = 1
         /\ calls[c].emitted[1].decision \in {"allow", "deny"}
         /\ calls[c].outcome \in {"returned", "raised"}
    /\ calls[c].pc # "done" =>
         /\ Len(calls[c].emitted) = (IF calls[c].pc = "leave" THEN 1 ELSE 0)
         /\ calls[c].outcome = "pending"

\* a call ended on an error of the transport that is no guard abort, after
\* its payment was signed and recorded
C8_Witness ==
  \E c \in CallIds :
    /\ calls[c].pc = "done"
    /\ calls[c].signed
    /\ Len(calls[c].spent) = 1
    /\ calls[c].emitted[1].code = Def("POLICY_INVALID")

\* the time at which an allow record was built
AllowedAt(c) ==
  calls[c].startedAt + Val(calls[c].emitted[1].response).latencyMs

\* C9: fetch returns the response exactly when the emitted record is allow
\* and raises exactly when it is deny; a returned response is the one the
\* transport delivered and passes the response gate.
C9_ReturnIffAllow ==
  \A c \in CallIds :
    calls[c].pc = "done" =>
      /\ calls[c].outcome = "returned" <=> calls[c].emitted[1].decision = "allow"
      /\ calls[c].outcome = "raised" <=> calls[c].emitted[1].decision = "deny"
      /\ calls[c].outcome = "returned" =>
           /\ calls[c].returned = calls[c].delivered
           /\ ~IsDef(enforceResponseConditions(Val(calls[c].returned),
                        calls[c].startedAt, policy.conditions, AllowedAt(c)))
      /\ calls[c].outcome = "raised" => IsDef(calls[c].raised)

\* a paid call whose response failed the gate ended in deny and raised
C9_Witness ==
  \E c \in CallIds :
    /\ calls[c].pc = "done"
    /\ calls[c].signed
    /\ IsDef(calls[c].res)
    /\ calls[c].outcome = "raised"
    /\ calls[c].emitted[1].code = Def("RESPONSE_CONDITION_FAILED")

\* the filtering hook raised and the negotiation client propagated its error
FilterRaised(c) ==
  /\ IsDef(calls[c].thrown)
  /\ Val(calls[c].thrown).code = Def("PAYMENT_BLOCKED_NO_ACCEPTABLE_REQUIREMENTS")

\* C10: when the filtering hook raised for want of an acceptable requirement,
\* the call's decision record is a deny with the code
\* PAYMENT_BLOCKED_NO_ACCEPTABLE_REQUIREMENTS and the error raised to the
\* caller carries the same code.
C10_NoAcceptableIsReportedAsSuch ==
  \A c \in CallIds :
    (calls[c].pc = "done" /\ FilterRaised(c)) =>
      /\ calls[c].emitted[1].decision = "deny"
      /\ calls[c].emitted[1].code = Def("PAYMENT_BLOCKED_NO_ACCEPTABLE_REQUIREMENTS")
      /\ Val(calls[c].raised).code = Def("PAYMENT_BLOCKED_NO_ACCEPTABLE_REQUIREMENTS")

\* C11: when the admission check of the before-hook rejected and the
\* negotiation client aborted with the hook's reason, the call ends with a
\* deny record of code PAYMENT_BLOCKED_BUDGET_WINDOW and raises a GuardError
\* of that code; it never returns a response.
C11_BudgetAbortIsDeniedAndRaised ==
  \A c \in CallIds :
    calls[c].admission = "rejected" =>
      /\ calls[c].outcome # "returned"
      /\ ~IsDef(calls[c].returned)
      /\ calls[c].pc = "done" =>
           /\ calls[c].emitted[1].decision = "deny"
           /\ calls[c].emitted[1].code = Def("PAYMENT_BLOCKED_BUDGET_WINDOW")
           /\ calls[c].outcome = "raised"
           /\ IsGuardError(Val(calls[c].raised))
           /\ Val(calls[c].raised).code = Def("PAYMENT_BLOCKED_BUDGET_WINDOW")

\* a call whose admission was rejected ended by raising the budget error,
\* whose explanation carries the reason of the hook
C11_Witness ==
  \E c \in CallIds :
    /\ calls[c].admission = "rejected"
    /\ calls[c].pc = "done"
    /\ calls[c].outcome = "raised"
    /\ MessageIncludes(Val(calls[c].raised).explanation, "Blocked by")

\* C12: whenever an error propagates to the caller of fetch, the deny record
\* of the call is already with the audit sink: it was handed over in an
\* earlier step, and the propagating step hands over nothing more.
C12_DenyRecordBeforeError ==
  [][\A c \in CallIds :
       (calls[c].outcome = "pending" /\ calls'[c].outcome = "raised") =>
         /\ Len(calls[c].emitted) = 1
         /\ calls[c].emitted[1].decision = "deny"
         /\ calls'[c].emitted = calls[c].emitted]_vars

\* the deny record of a failed response condition is with the sink and the
\* error has not yet reached the caller
C12_Witness ==
  \E c \in CallIds :
    /\ calls[c].pc = "leave"
    /\ calls[c].outcome = "pending"
    /\ IsDef(Val(calls[c].leaving).throw)
    /\ Len(calls[c].emitted) = 1
    /\ calls[c].emitted[1].code = Def("RESPONSE_CONDITION_FAILED")

\* what the call throws or returns for its inputs (the error paidFetch
\* rejected with, or the delivered response at the time of the gate) when
\* the audit sink returns normally
OutcomeWithQuietSink(c) ==
  IF IsDef(calls[c].thrown)
  THEN CatchPaidFetch(Val(calls[c].thrown), buildPaymentAudit)
  ELSE LET run == ResponseGate(Val(calls[c].delivered), calls[c].startedAt,
                               policy.conditions, clock)
       IN  AfterResponse(run.res, run.thrown, buildPaymentAudit,
                         clock - calls[c].startedAt)

\* C13: whether the audit sink returns or throws, fetch returns the same
\* response or raises the same error: the one it returns or raises for the
\* same inputs with a sink that returns normally.
C13_SinkErrorNeverChangesOutcome ==
  \A c \in CallIds :
    /\ calls[c].pc = "leave" =>
         /\ Val(calls[c].leaving).throw = OutcomeWithQuietSink(c).throw
         /\ Val(calls[c].leaving).return = OutcomeWithQuietSink(c).return
    /\ calls[c].pc = "done" =>
         /\ calls[c].raised = OutcomeWithQuietSink(c).throw
         /\ calls[c].returned = OutcomeWithQuietSink(c).return

\* the sink threw on the allow record of a paid call and fetch still
\* returned the response
C13_Witness ==
  \E c \in CallIds :
    /\ calls[c].pc = "done"
    /\ calls[c].sinkThrew
    /\ calls[c].signed
    /\ calls[c].emitted[1].decision = "allow"
    /\ calls[c].outcome = "returned"

\* paidFetch rejected with an error that is no deliberate abort of the guard
UnexpectedError(c) ==
  /\ IsDef(calls[c].thrown)
  /\ calls[c].admission # "rejected"
  /\ ~FilterRaised(c)

\* C14: an error of the negotiation client or the transport that is no
\* deliberate guard abort ends the call with exactly one deny record of the
\* generic code, and the very same error is raised to the caller.
C14_UnexpectedErrorDeniedAndRethrown ==
  \A c \in CallIds :
    (calls[c].pc = "done" /\ UnexpectedError(c)) =>
      /\ Len(calls[c].emitted) = 1
      /\ calls[c].emitted[1].decision = "deny"
      /\ calls[c].emitted[1].code = Def("POLICY_INVALID")
      /\ calls[c].raised = calls[c].thrown

\* ------------------------------------------------------------------------
\* Properties of the constructor (SpecConstruct)
\* ------------------------------------------------------------------------
\* the policy of the config breaks an invariant of policy configurations:
\* cap, budget limit, window length and max latency strictly positive when
\* present, required fields a list when present
InvalidConfig ==
  LET p == config.policy
  IN  \/ IsDef(p.maxPerPaymentUsd) /\ Val(p.maxPerPaymentUsd).num <= 0
      \/ IsDef(p.budget) /\ Val(p.budget).limitUsd.num <= 0
      \/ IsDef(p.budget) /\ Val(p.budget).windowMs <= 0
      \/ IsDef(p.conditions) /\ IsDef(Val(p.conditions).maxLatencyMs)
           /\ Val(Val(p.conditions).maxLatencyMs) <= 0
      \/ ~config.fieldsAreArray

\* C15: constructing X402Guard with an invalid policy fails with a
\* POLICY_INVALID error, with no hook registered on the negotiation client
\* and no ledger created; no guarded call ever runs under an invalid policy.
C15_InvalidPolicyNeverConstructs ==
  /\ (InvalidConfig /\ construction # "new") =>
       /\ construction = "failed"
       /\ IsGuardError(Val(ctorThrown))
       /\ Val(ctorThrown).code = Def("POLICY_INVALID")
       /\ hooks = {}
       /\ ~budget.present
       /\ policy = NoPolicy
  /\ started > 0 => (~InvalidConfig /\ policy = config.policy)

\* a config whose budget has a zero limit was refused
C15_Witness ==
  /\ construction = "failed"
  /\ IsDef(config.policy.budget)
  /\ Val(config.policy.budget).limitUsd.num = 0
  /\ ~IsDef(config.policy.maxPerPaymentUsd)
  /\ IsDef(ctorThrown)

\* ------------------------------------------------------------------------
\* Properties of the response gate (SpecGate)
\* ------------------------------------------------------------------------
GateLatency == gateIn.now - gateIn.startedAtMs

TooLate ==
  /\ IsDef(gateIn.conditions)
  /\ IsDef(Val(gateIn.conditions).maxLatencyMs)
  /\ GateLatency > Val(Val(gateIn.conditions).maxLatencyMs)

BadStatus ==
  /\ IsDef(gateIn.conditions)
  /\ Val(gateIn.conditions).requireHttp2xx
  /\ Val(gateIn.res).status \notin 200..299

RequiredFields ==
  IF IsDef(gateIn.conditions) /\ IsDef(Val(gateIn.conditions).requiredJsonFields)
  THEN Val(Val(gateIn.conditions).requiredJsonFields)
  ELSE <<>>

BodyParses == IsDef(Val(gateIn.res).json)

\* the required fields the body holds no non-null value for, in configured
\* order
AbsentOrNull ==
  SelectSeq(RequiredFields, LAMBDA f : Val(Val(gateIn.res).json)[f] # "value")

GateFailedWith(explanation) ==
  /\ IsDef(gateOut.thrown)
  /\ Val(gateOut.thrown).code = Def("RESPONSE_CONDITION_FAILED")
  /\ Val(gateOut.thrown).explanation = <<Lit(explanation)>>

\* C16: the gate checks latency, then status, then the required JSON fields
\* and stops at the first failure: a non-2xx status under requireHttp2xx
\* always fails with RESPONSE_CONDITION_FAILED without the body being parsed,
\* and a latency violation is reported in preference to a status violation.
C16_LatencyThenStatusThenFields ==
  gateOut.done =>
    /\ TooLate => /\ GateFailedWith("Response exceeded max latency policy.")
                  /\ ~gateOut.cloned
    /\ BadStatus =>
         /\ IsDef(gateOut.thrown)
         /\ Val(gateOut.thrown).code = Def("RESPONSE_CONDITION_FAILED")
         /\ ~gateOut.cloned
    /\ (BadStatus /\ ~TooLate) =>
         GateFailedWith("Response status failed policy (expected 2xx).")
    /\ gateOut.cloned => (~TooLate /\ ~BadStatus /\ Len(RequiredFields) > 0)

\* a late non-2xx response lacking a required field was refused for latency
C16_Witness ==
  /\ gateOut.done
  /\ TooLate
  /\ BadStatus
  /\ Len(RequiredFields) > 0
  /\ BodyParses
  /\ Len(AbsentOrNull) > 0
  /\ GateFailedWith("Response exceeded max latency policy.")

\* C17: where the field check is reached (latency and status pass) with a
\* non-empty required-field list and a body that parses as JSON, a field is
\* missing exactly when it is absent or null, and when any is missing the
\* gate fails once with RESPONSE_CONDITION_FAILED whose details list every
\* missing field in configured order.
C17_MissingFieldsAllListed ==
  (gateOut.done /\ ~TooLate /\ ~BadStatus /\ Len(RequiredFields) > 0 /\ BodyParses) =>
    IF Len(AbsentOrNull) = 0
    THEN ~IsDef(gateOut.thrown)
    ELSE /\ GateFailedWith("Response is missing required JSON fields.")
         /\ Val(Val(gateOut.thrown).details).missing = AbsentOrNull

\* two required fields, one absent and one null, are both listed
C17_Witness ==
  /\ gateOut.done
  /\ IsDef(gateOut.thrown)
  /\ BodyParses
  /\ Val(Val(gateIn.res).json).ok = "absent"
  /\ Val(Val(gateIn.res).json).result = "null"
  /\ Val(Val(gateOut.thrown).details).missing = <<"ok", "result">>

\* the response meets every configured condition
MeetsConditions ==
  /\ ~TooLate
  /\ ~BadStatus
  /\ Len(RequiredFields) = 0 \/ (BodyParses /\ Len(AbsentOrNull) = 0)

\* C18: the gate raises nothing exactly when latency, status and required
\* fields all meet the configured conditions; with no conditions every
\* response passes; an unparseable body with required fields configured
\* fails with RESPONSE_CONDITION_FAILED.
C18_GatePassesIffConditionsMet ==
  gateOut.done =>
    /\ ~IsDef(gateOut.thrown) <=> MeetsConditions
    /\ ~IsDef(gateIn.conditions) => ~IsDef(gateOut.thrown)
    /\ IsDef(gateOut.thrown) =>
         Val(gateOut.thrown).code = Def("RESPONSE_CONDITION_FAILED")
    /\ (Len(RequiredFields) > 0 /\ ~BodyParses) => IsDef(gateOut.thrown)

\* a response passed all three configured conditions at the limits of each
C18_Witness ==
  /\ gateOut.done
  /\ ~IsDef(gateOut.thrown)
  /\ IsDef(gateIn.conditions)
  /\ Val(gateIn.conditions).requireHttp2xx
  /\ Val(gateIn.res).status = 299
  /\ Val(gateIn.conditions).maxLatencyMs = Def(GateLatency)
  /\ Len(RequiredFields) = 2

\* C19: the response gate leaves the response as the transport delivered it,
\* its body unread, whether it passes or fails and also when it parsed the
\* body; the response fetch returns on allow is that same response.
C19_GateLeavesResponseUnread ==
  \A c \in CallIds :
    IsDef(calls[c].res) =>
      /\ calls[c].res = calls[c].delivered
      /\ ~Val(calls[c].res).bodyUsed
      /\ calls[c].outcome = "returned" =>
           /\ calls[c].returned = calls[c].delivered
           /\ ~Val(calls[c].returned).bodyUsed

\* the gate parsed the body for a required field and fetch returned the
\* response
C19_Witness ==
  \E c \in CallIds :
    /\ calls[c].outcome = "returned"
    /\ IsDef(policy.conditions)
    /\ Len(Val(Val(policy.conditions).requiredJsonFields)) > 0
    /\ ResponseGate(Val(calls[c].delivered), calls[c].startedAt,
                    policy.conditions, clock).cloned

\* ------------------------------------------------------------------------
\* Ordering of the acceptable list (SpecEval)
\* ------------------------------------------------------------------------
\* the acceptable list before the sort: the input, filtered when capped
PreSort ==
  IF Capped THEN SelectSeq(evalReqs, WithinCap) ELSE evalReqs

\* the parsed amount, zero when the amount does not parse
OrderKey(r) ==
  LET amount == parseUsdcAmountBaseUnits(r)
  IN  IF IsDef(amount) THEN Val(amount) ELSE 0

WithKey(q, k) == SelectSeq(q, LAMBDA r : OrderKey(r) = k)

\* C20: with cheapest-first enabled the acceptable output is sorted ascending
\* by parsed amount, an unparseable amount ordering as zero, and is a stable
\* permutation of the list before the sort: requirements of equal amount
\* keep their relative order, none added or lost.
C20_CheapestFirstStableSort ==
  (evalOut.done /\ policy.selectCheapest) =>
    /\ \A i, j \in 1..Len(evalOut.acceptable) :
         i < j => OrderKey(evalOut.acceptable[i]) <= OrderKey(evalOut.acceptable[j])
    /\ Len(evalOut.acceptable) = Len(PreSort)
    /\ \A i \in 1..Len(PreSort) :
         WithKey(evalOut.acceptable, OrderKey(PreSort[i]))
           = WithKey(PreSort, OrderKey(PreSort[i]))

\* two different requirements of equal order, one of them unparseable, come
\* out in their input order
C20_Witness ==
  /\ evalOut.done
  /\ policy.selectCheapest
  /\ Len(evalOut.acceptable) = 2
  /\ evalOut.acceptable[1] # evalOut.acceptable[2]
  /\ OrderKey(evalOut.acceptable[1]) = OrderKey(evalOut.acceptable[2])
  /\ ~IsDef(parseUsdcAmountBaseUnits(evalOut.acceptable[1]))

\* C21: evaluatePaymentRequirements is free of side effects: no call changes
\* the array it was given (elements and order), the policy, or any guard or
\* ledger state, and a second call with the same arguments returns the same
\* acceptable and rejected lists.
C21_EvaluateHasNoSideEffects ==
  /\ [](IsDef(evalOut.again) =>
          Val(evalOut.again) = [acceptable |-> evalOut.acceptable,
                                rejected |-> evalOut.rejected])
  /\ [][/\ evalReqs' = evalReqs
        /\ policy' = policy
        /\ UNCHANGED <<budget, recorded, guardVars>>]_vars

\* a list the sort reorders and the cap filters was evaluated twice
C21_Witness ==
  /\ IsDef(evalOut.again)
  /\ policy.selectCheapest
  /\ Len(evalReqs) = 2
  /\ OrderKey(evalReqs[1]) > OrderKey(evalReqs[2])
  /\ evalOut.acceptable = <<evalReqs[2], evalReqs[1]>>

\* C22: the filtering hook raises PAYMENT_BLOCKED_NO_ACCEPTABLE_REQUIREMENTS
\* exactly when nothing of the advertised list is acceptable (the empty list
\* included): then no requirement is selected or signed and the error's
\* details list every requirement of the original list; and a requirement is
\* only ever selected out of a non-empty acceptable list.
C22_EmptyAcceptableRaisesWithFullList ==
  \A c \in CallIds :
    LET k == calls[c] IN
    /\ k.filtered => (IsDef(k.refused) <=> ~IsDef(k.selected))
    /\ IsDef(k.selected) =>
         evaluatePaymentRequirements(policy, <<Val(k.selected)>>).acceptable
           = <<Val(k.selected)>>
    /\ IsDef(k.refused) =>
         /\ evaluatePaymentRequirements(policy, Val(k.refused)).acceptable = <<>>
         /\ ~k.signed
         /\ k.admission = "none"
         /\ k.spent = <<>>
         /\ IsDef(k.thrown)
         /\ IsGuardError(Val(k.thrown))
         /\ Val(k.thrown).code = Def("PAYMENT_BLOCKED_NO_ACCEPTABLE_REQUIREMENTS")
         /\ LET available == Val(Val(k.thrown).details).available
            IN  /\ Len(available) = Len(Val(k.refused))
                /\ \A i \in 1..Len(available) :
                     available[i] = AvailableRequirement(Val(k.refused)[i])

\* the hook raised for a list of two of which only one was recorded as rejected
C22_Witness ==
  \E c \in CallIds :
    /\ IsDef(calls[c].refused)
    /\ Len(Val(calls[c].refused)) = 2
    /\ Len(lastRejected) = 1
    /\ Len(Val(Val(calls[c].thrown).details).available) = 2

\* C23: a getTotal at time t that directly follows a getTotal at the same t,
\* with no record in between, returns the same total and leaves the stored
\* event sequence as the first call left it.
C23_GetTotalTwiceIsIdempotent ==
  [][(ret'.op = "getTotal" /\ ret'.again) =>
       /\ ret'.total = ret.total
       /\ ret'.now = ret.now
       /\ budget'.events = budget.events]_vars

\* the repeated query follows one that evicted an event and kept another
C23_Witness ==
  /\ ret.op = "getTotal"
  /\ ret.again
  /\ ret.total > 0
  /\ Len(budget.events) = 1
  /\ Len(recorded) = 2

\* the payment snapshot built from what the hooks invoked during call c
\* themselves produced
OwnAudit(c) == PaymentAudit(calls[c].own)

\* a decision record of call c exists
Recorded(c) == calls[c].pc \in {"leave", "done"} /\ Len(calls[c].emitted) > 0

\* C24: when guarded calls on one guard never overlap, the payment snapshot
\* of a call's decision record (selected requirement, rejected list, budget
\* total before and after) is made of the values the hooks produced during
\* that same call, and at the start of a call the scratch state is empty.
C24_RecordHoldsOnlyOwnCallValues ==
  \A c \in CallIds :
    /\ ~calls[c].overlapped
    /\ Recorded(c) => calls[c].emitted[1].payment = OwnAudit(c)
    /\ (calls[c].pc = "paidFetch" /\ ~calls[c].filtered) =>
         Scratch = ScratchReset(Scratch)

\* a second call in which no hook ran has ended with an empty snapshot after
\* a first call whose hooks had filled the scratch state
C24_Witness ==
  \E c \in CallIds :
    /\ started = 2
    /\ Len(recorded) = 1
    /\ calls[c].pc = "done"
    /\ ~calls[c].filtered
    /\ Recorded(c)
    /\ ~IsDef(calls[c].emitted[1].payment.selected)
    /\ ~IsDef(calls[c].emitted[1].payment.rejected)

\* C25: a call's decision record differs from the snapshot of the call's own
\* hooks only if the call overlapped another call on the same guard; with
\* two overlapping calls such a record is reachable (see the witness).
C25_OnlyOverlapCorruptsSnapshot ==
  \A c \in CallIds :
    (Recorded(c) /\ calls[c].emitted[1].payment # OwnAudit(c)) =>
      calls[c].overlapped

\* a call has ended with a record that carries the requirement the other
\* call's hook selected, not its own, and has lost its own rejected list
C25_Witness ==
  \E c, d \in CallIds :
    /\ c # d
    /\ calls[c].pc = "done"
    /\ Recorded(c)
    /\ IsDef(calls[c].own.lastSelected)
    /\ IsDef(calls[d].own.lastSelected)
    /\ calls[c].own.lastSelected # calls[d].own.lastSelected
    /\ calls[c].emitted[1].payment.selected =
         Def(RequirementSnapshot(Val(calls[d].own.lastSelected)))
    /\ Len(calls[c].own.lastRejected) > 0
    /\ ~IsDef(calls[c].emitted[1].payment.rejected)

\* C26: the ledger grows only by the after-hook of a payment attempt whose
\* requirement was selected, admitted by the before-hook's check and signed,
\* and by exactly that requirement's amount; a call whose admission was
\* rejected, or that got no further than the filter, has recorded nothing.
C26_SpendOnlyAfterAdmissionAndSigning ==
  /\ [](\A c \in CallIds :
          /\ calls[c].spent # <<>> =>
               /\ calls[c].admission = "ok"
               /\ calls[c].signed
               /\ IsDef(calls[c].selected)
          /\ (calls[c].admission \in {"none", "rejected", "skipped"}
                \/ IsDef(calls[c].refused)) => calls[c].spent = <<>>)
  /\ [][recorded' # recorded =>
          \E c \in CallIds :
            /\ calls[c].pc = "after"
            /\ calls'[c].pc = "retry"
            /\ calls[c].signed
            /\ calls[c].admission = "ok"
            /\ IsDef(calls[c].selected)
            /\ IsDef(parseUsdcAmountBaseUnits(Val(calls[c].selected)))
            /\ recorded' = Append(recorded,
                 SpendEvent(clock,
                   Val(parseUsdcAmountBaseUnits(Val(calls[c].selected)))))
            /\ calls'[c].spent = <<recorded'[Len(recorded')]>>]_vars

\* one call has been admitted, signed and recorded, and a later one was
\* rejected by the admission check and recorded nothing
C26_Witness ==
  \E c \in CallIds :
    /\ Len(recorded) = 1
    /\ calls[c].admission = "rejected"
    /\ calls[c].pc = "done"
    /\ calls[c].spent = <<>>

\* the configuration errors that name an invariant the config's policy breaks
ViolatedInvariants ==
  LET p == config.policy
  IN  { m \in { "policy.maxPerPaymentUsd must be > 0",
                "policy.budget.limitUsd must be > 0",
                "policy.budget.windowMs must be > 0",
                "policy.conditions.maxLatencyMs must be > 0",
                "policy.conditions.requiredJsonFields must be an array of strings" } :
          \/ m = "policy.maxPerPaymentUsd must be > 0"
               /\ IsDef(p.maxPerPaymentUsd) /\ Val(p.maxPerPaymentUsd).num <= 0
          \/ m = "policy.budget.limitUsd must be > 0"
               /\ IsDef(p.budget) /\ Val(p.budget).limitUsd.num <= 0
          \/ m = "policy.budget.windowMs must be > 0"
               /\ IsDef(p.budget) /\ Val(p.budget).windowMs <= 0
          \/ m = "policy.conditions.maxLatencyMs must be > 0"
               /\ IsDef(p.conditions) /\ IsDef(Val(p.conditions).maxLatencyMs)
               /\ Val(Val(p.conditions).maxLatencyMs) <= 0
          \/ m = "policy.conditions.requiredJsonFields must be an array of strings"
               /\ ~config.fieldsAreArray }

IsIntegerNumeral(a) ==
  /\ a.type = "string"
  /\ a.chars # <<>>
  /\ LET s == IF Head(a.chars) \in {"+", "-"} THEN Tail(a.chars) ELSE a.chars
     IN  s # <<>> /\ AllDigits(s)

NumeralValue(a) ==
  IF Head(a.chars) = "-" THEN -DecimalValue(Tail(a.chars), 0)
  ELSE IF Head(a.chars) = "+" THEN DecimalValue(Tail(a.chars), 0)
  ELSE DecimalValue(a.chars, 0)

\* C28: parseUsdcAmountBaseUnits returns the integer value of an amount that
\* is a valid integer numeral, and "unparseable" for every other amount: one
\* that is absent, not a string, or not a valid integer numeral, the empty
\* string included.
C28_ParseIsValueOrUnparseable ==
  evalOut.done =>
    \A i \in 1..Len(evalReqs) :
      LET r == evalReqs[i]
      IN  parseUsdcAmountBaseUnits(r) =
            IF IsIntegerNumeral(r.amount)
            THEN Def(NumeralValue(r.amount)) ELSE Undefined

\* v * 10^6 for the value v of a JavaScript number, exactly, as a fraction
ExactScaled(usd) ==
  IF usd.den >= EvenPart(UsdcScale)
  THEN [num |-> usd.num * OddPart(UsdcScale),
        den |-> usd.den \div EvenPart(UsdcScale)]
  ELSE [num |-> usd.num * UsdcScale, den |-> usd.den]

\* b <= v * 10^6 < b + 1
IsFloorOfScaled(b, usd) ==
  LET x == ExactScaled(usd)
  IN  b * x.den <= x.num /\ x.num < (b + 1) * x.den

\* C29: usdToUsdcBaseUnits rounds down: the base-unit limit b of a ledger
\* built for the display value v satisfies b <= v * 10^6 < b + 1, and so
\* does the cap.
C29_ConversionRoundsDown ==
  construction = "constructed" =>
    /\ budget.present =>
         IsFloorOfScaled(budget.limitBaseUnits, Val(policy.budget).limitUsd)
    /\ IsDef(policy.maxPerPaymentUsd) =>
         IsFloorOfScaled(usdToUsdcBaseUnits(Val(policy.maxPerPaymentUsd)),
                         Val(policy.maxPerPaymentUsd))

\* the allow record of call c carries what the call selected, rejected and
\* spent, and the response it returns
AllowRecordComplete(c) ==
  LET k == calls[c]
      rec == k.emitted[1]
  IN  /\ Len(k.emitted) = 1
      /\ rec.decision = "allow"
      /\ rec.payment.selected = Def(RequirementSnapshot(Val(k.selected)))
      /\ rec.payment.rejected =
           (IF Len(k.own.lastRejected) > 0
            THEN Def(k.own.lastRejected) ELSE Undefined)
      /\ \A i \in 1..Len(k.own.lastRejected) :
           k.own.lastRejected[i].reason = "ABOVE_PER_PAYMENT_CAP"
      /\ IF budget.present
         THEN /\ IsDef(rec.payment.budget)
              /\ Val(rec.payment.budget).windowMs = Val(policy.budget).windowMs
              /\ Val(rec.payment.budget).limitBaseUnits =
                   BigIntToString(budget.limitBaseUnits)
              /\ IsDef(k.own.lastBudgetBefore)
              /\ Val(rec.payment.budget).totalBeforeBaseUnits =
                   Def(BigIntToString(Val(k.own.lastBudgetBefore)))
              /\ IsDef(k.own.lastBudgetAfter)
              /\ Val(rec.payment.budget).totalAfterBaseUnits =
                   Def(BigIntToString(Val(k.own.lastBudgetAfter)))
         ELSE ~IsDef(rec.payment.budget)
      /\ rec.response = Def([status |-> Val(k.returned).status,
                             latencyMs |-> clock - k.startedAt])

\* C30: a call (calls one at a time) that signed a payment and ended in
\* allow has handed over an allow record with the requirement selected and
\* signed in the call, the requirements its filter rejected as
\* ABOVE_PER_PAYMENT_CAP, the budget snapshot (window, total before, total
\* after, limit) when a budget is configured, and the status and latency of
\* the response.
C30_AllowRecordAfterPaymentIsComplete ==
  \A c \in CallIds :
    (calls[c].pc = "done" /\ calls[c].outcome = "returned" /\ calls[c].signed)
      => AllowRecordComplete(c)

\* the events of evs that a call at time now keeps, in their order
InWindowAt(evs, now) ==
  SelectSeq(evs, LAMBDA e : e.ts >= now - budget.windowMs)

\* C31: when getTotal(now), canSpend(_, now) or record(_, now) returns, no
\* stored event is older than now - windowMs, every event stored before with
\* a timestamp >= now - windowMs is still there in its order, and after
\* record the new event is the last one; the stored sequence changes in no
\* other way.
C31_CallsPruneAndKeepOrder ==
  /\ [](ret.op # "none" =>
          /\ \A i \in 1..Len(budget.events) :
               budget.events[i].ts >= ret.now - budget.windowMs
          /\ ret.op = "record" =>
               /\ budget.events # <<>>
               /\ budget.events[Len(budget.events)] =
                    SpendEvent(ret.now, ret.amount))
  /\ [][budget'.events =
          IF ret'.op = "record"
          THEN Append(InWindowAt(budget.events, ret'.now),
                      SpendEvent(ret'.now, ret'.amount))
          ELSE InWindowAt(budget.events, ret'.now)]_vars

\* a record call evicted an expired event and appended its own
C31_Witness ==
  /\ ret.op = "record"
  /\ Len(recorded) = 2
  /\ Len(budget.events) = 1
  /\ recorded[1].ts < ret.now - budget.windowMs

\* C32: whatever the interleaving of the before- and after-hooks of two
\* overlapping calls on one guard, the spend events recorded within one
\* trailing window sum to at most the budget limit.
C32_OverlappingCallsStayWithinLimit ==
  \A t \in 0..MaxClock :
    WindowSum(recorded, t, budget.windowMs) <= budget.limitBaseUnits

\* C33: a deny record with code PAYMENT_BLOCKED_BUDGET_WINDOW is handed over
\* only by a call of a guard with a budget whose admission check rejected;
\* no other failure is reported under that code.
C33_BudgetCodeOnlyForBudgetRejection ==
  \A c \in CallIds :
    \A i \in 1..Len(calls[c].emitted) :
      (/\ calls[c].emitted[i].decision = "deny"
       /\ calls[c].emitted[i].code = Def("PAYMENT_BLOCKED_BUDGET_WINDOW")) =>
        /\ budget.present
        /\ calls[c].admission = "rejected"

\* C34: every spend event the guard records has a non-negative amount, and
\* the total of the stored events is never negative.
C34_SpendsAreNonNegative ==
  /\ \A i \in 1..Len(recorded) : recorded[i].amountBaseUnits >= 0
  /\ SumAmounts(budget.events) >= 0

\* evs occurs at the front of longer
IsPrefix(evs, longer) ==
  Len(evs) <= Len(longer) /\ SubSeq(longer, 1, Len(evs)) = evs

\* the spend event of call c still lies in the window that ends now
SpendInWindow(c) ==
  /\ calls[c].spent # <<>>
  /\ calls[c].spent[1].ts >= clock - budget.windowMs

\* C35: a spend the after-hook recorded stays in the ledger whatever the
\* call's outcome: while it is in the window it is among the stored events,
\* also after the response gate or the transport failed the call, and no
\* step removes a stored event that is still in the window.
C35_SpendSurvivesLaterFailure ==
  /\ [](\A c \in CallIds :
          SpendInWindow(c) =>
            \E i \in 1..Len(budget.events) :
              budget.events[i] = calls[c].spent[1])
  /\ [][IsPrefix(InWindowAt(budget.events, clock'),
                InWindowAt(budget'.events, clock'))]_vars

\* a call that paid was denied by the response gate; its spend is still
\* stored and counted
C35_Witness ==
  \E c \in CallIds :
    /\ calls[c].pc = "done"
    /\ calls[c].outcome = "raised"
    /\ calls[c].emitted[1].decision = "deny"
    /\ calls[c].emitted[1].code = Def("RESPONSE_CONDITION_FAILED")
    /\ SpendInWindow(c)
    /\ budget.events # <<>>
    /\ SumAmounts(budget.events) > 0

\* the spend events recorded before call c recorded its own
EarlierSpends(c) == SubSeq(recorded, 1, Len(recorded) - Len(calls[c].spent))

\* call c went through the admission check with the positive amount a, every
\* earlier spend had the same amount, and all of them lie within one window
\* length of now
RetryLoopOf(c, a) ==
  /\ IsDef(calls[c].selected)
  /\ parseUsdcAmountBaseUnits(Val(calls[c].selected)) = Def(a)
  /\ calls[c].admission \in {"ok", "rejected"}
  /\ \A i \in 1..Len(EarlierSpends(c)) :
       /\ EarlierSpends(c)[i].amountBaseUnits = a
       /\ EarlierSpends(c)[i].ts >= clock - budget.windowMs

\* C36: in a loop of calls, one at a time and within one window length, that
\* each select a requirement of the same positive amount a, at most
\* floor(limit / a) calls reach signing; a further call is aborted by the
\* before-hook and ends in deny.
C36_RetryLoopStopsAtLimit ==
  budget.present =>
    \A c \in CallIds, a \in 1..(budget.limitBaseUnits + 1) :
      RetryLoopOf(c, a) =>
        LET quota == budget.limitBaseUnits \div a
            earlier == Len(EarlierSpends(c))
        IN  /\ ReachedSigner(c) => earlier + 1 <= quota
            /\ earlier >= quota =>
                 /\ calls[c].admission = "rejected"
                 /\ ~calls[c].signed
                 /\ calls[c].pc = "done" =>
                      /\ calls[c].emitted[1].decision = "deny"
                      /\ calls[c].outcome = "raised"

\* the second call of a loop with amount 2 under limit 3 was aborted
C36_Witness ==
  \E c \in CallIds :
    /\ budget.present
    /\ RetryLoopOf(c, 2)
    /\ Len(EarlierSpends(c)) = 1
    /\ calls[c].pc = "done"
    /\ calls[c].admission = "rejected"

\* the number a decimal string of a decision record stands for
RecordedTotal(str) == Val(StringToBigInt(Val(str)))

\* C37: in the decision record of a call (calls one at a time, budget
\* configured) whose selected amount a parses: if the payment was signed,
\* totalAfter <= totalBefore + a, with equality when no time passed during
\* the call, and totalAfter <= limit; if the admission check blocked the
\* call, totalBefore is present, totalAfter is absent and
\* totalBefore + a > limit.
C37_BudgetSnapshotIsConsistent ==
  budget.present =>
    \A c \in CallIds :
      LET k == calls[c]
          a == parseUsdcAmountBaseUnits(Val(k.selected))
          snap == Val(k.emitted[1].payment.budget)
      IN  (Recorded(c) /\ IsDef(k.selected) /\ IsDef(a)) =>
            /\ k.spent # <<>> =>
                 /\ IsDef(snap.totalBeforeBaseUnits)
                 /\ IsDef(snap.totalAfterBaseUnits)
                 /\ RecordedTotal(snap.totalAfterBaseUnits)
                      <= RecordedTotal(snap.totalBeforeBaseUnits) + Val(a)
                 /\ clock = k.startedAt =>
                      RecordedTotal(snap.totalAfterBaseUnits)
                        = RecordedTotal(snap.totalBeforeBaseUnits) + Val(a)
                 /\ RecordedTotal(snap.totalAfterBaseUnits)
                      <= budget.limitBaseUnits
            /\ k.admission = "rejected" =>
                 /\ IsDef(snap.totalBeforeBaseUnits)
                 /\ ~IsDef(snap.totalAfterBaseUnits)
                 /\ RecordedTotal(snap.totalBeforeBaseUnits) + Val(a)
                      > budget.limitBaseUnits

====
